---- MODULE Spec2Model ----
(***************************************************************************)
(* A model of apihunter's endpoint discovery engine: the extraction        *)
(* strategies of APIDiscovery, the classifier predicates, the merger       *)
(* (_deduplicate_endpoints), the live validator (_validate_endpoints),     *)
(* the EndpointScanner scans with the thread pool of scan_common_paths,    *)
(* the logins of Authenticator and the part of main() that combines them.  *)
(*                                                                         *)
(* Confidences are Python floats in the source.  They are modelled as      *)
(* integers counting hundredths (0.7 is 70, 0.95 is 95), so that the       *)
(* +0.2 / +0.1 / -0.3 arithmetic and the clamps are exact decimals.        *)
(* URLs, references and page text are TLA+ strings handled character by    *)
(* character (Len, SubSeq, \o).                                            *)
(***************************************************************************)
EXTENDS Integers, Sequences, FiniteSets, TLC

VARIABLES
    pc,               \* position of main() / discover_endpoints()
    page,             \* what the target serves at base_url: a sequence of page items
    extracted,        \* what each extraction strategy returns for that page
    authenticated,    \* Authenticator.authenticated, as main() left it
    fetched,          \* the outcome of the primary page fetch: "none", "ok", "failed"
    endpoints,        \* the local list `endpoints` of discover_endpoints
    unique_endpoints, \* the list handed to _validate_endpoints, as it was handed
    validated,        \* the local list `validated` of _validate_endpoints
    ai,               \* _test_authenticated_endpoints: paths tested so far
    vi,               \* _validate_endpoints: endpoints probed so far
    ran,              \* the extraction strategies that have run
    requests,         \* counters of the requests issued, by purpose, of the sleeps
                      \* of the validator, and the session each kind of request
                      \* went through
    lastProbe,        \* the most recent validation probe: its outcome, its index
                      \* and the endpoint as it was before the probe
    returned,         \* the list discover_endpoints returned
    opts,             \* the CLI flags and threshold main() has read so far
    scans,            \* main(): the lists the supplementary scans returned
    main_endpoints,   \* main(): its list `endpoints`
    report,           \* main(): unique_endpoints and filtered_endpoints
    pool,             \* scan_common_paths: the futures of the ThreadPoolExecutor and
                      \* the local list `endpoints`
    session,          \* the authentication state the Session of main() carries:
                      \* a subset of {"headers", "cookies"}
    merge_in,         \* merger harness: the input sequence
    merge_out,        \* merger harness: _deduplicate_endpoints(merge_in)
    merge_again,      \* merger harness: _deduplicate_endpoints(merge_out)
    mpc,              \* merger harness: position
    call              \* function harness: one call of a classifier or scanner
                      \* function, its argument and, once it returned, its result

discoverVars ==
    <<page, extracted, authenticated, fetched, endpoints, unique_endpoints, validated, ai,
      vi, ran, requests, lastProbe, returned>>
mainVars == <<opts, scans, main_endpoints, report, pool, session>>
mergeVars == <<merge_in, merge_out, merge_again, mpc, call>>
vars == <<pc, discoverVars, mainVars, mergeVars>>

-----------------------------------------------------------------------------
(* Strings *)

CharAt(s, i) == SubSeq(s, i, i)

\* the set of the characters of s
Chars(s) == { SubSeq(s, k, k) : k \in 1..Len(s) }

\* str.lower() (ASCII letters)
RECURSIVE lower(_)
lower(s) ==
    CHOOSE r \in
        { IF Len(c) <= 1
          THEN
              CASE c = "A" -> "a" [] c = "B" -> "b" [] c = "C" -> "c" [] c = "D" -> "d"
                [] c = "E" -> "e" [] c = "F" -> "f" [] c = "G" -> "g" [] c = "H" -> "h"
                [] c = "I" -> "i" [] c = "J" -> "j" [] c = "K" -> "k" [] c = "L" -> "l"
                [] c = "M" -> "m" [] c = "N" -> "n" [] c = "O" -> "o" [] c = "P" -> "p"
                [] c = "Q" -> "q" [] c = "R" -> "r" [] c = "S" -> "s" [] c = "T" -> "t"
                [] c = "U" -> "u" [] c = "V" -> "v" [] c = "W" -> "w" [] c = "X" -> "x"
                [] c = "Y" -> "y" [] c = "Z" -> "z" [] OTHER -> c
          ELSE lower(SubSeq(c, 1, Len(c) \div 2)) \o lower(SubSeq(c, Len(c) \div 2 + 1, Len(c)))
          : c \in {s} } : TRUE

\* str.upper() (ASCII letters)
RECURSIVE upper(_)
upper(s) ==
    CHOOSE r \in
        { IF Len(c) <= 1
          THEN
              CASE c = "a" -> "A" [] c = "b" -> "B" [] c = "c" -> "C" [] c = "d" -> "D"
                [] c = "e" -> "E" [] c = "f" -> "F" [] c = "g" -> "G" [] c = "h" -> "H"
                [] c = "i" -> "I" [] c = "j" -> "J" [] c = "k" -> "K" [] c = "l" -> "L"
                [] c = "m" -> "M" [] c = "n" -> "N" [] c = "o" -> "O" [] c = "p" -> "P"
                [] c = "q" -> "Q" [] c = "r" -> "R" [] c = "s" -> "S" [] c = "t" -> "T"
                [] c = "u" -> "U" [] c = "v" -> "V" [] c = "w" -> "W" [] c = "x" -> "X"
                [] c = "y" -> "Y" [] c = "z" -> "Z" [] OTHER -> c
          ELSE upper(SubSeq(c, 1, Len(c) \div 2)) \o upper(SubSeq(c, Len(c) \div 2 + 1, Len(c)))
          : c \in {s} } : TRUE

\* s.startswith(p)
startswith(s, p) == Len(s) >= Len(p) /\ SubSeq(s, 1, Len(p)) = p

\* s.endswith(p)
endswith(s, p) == Len(s) >= Len(p) /\ SubSeq(s, Len(s) - Len(p) + 1, Len(s)) = p

\* `sub in s`
contains(s, sub) ==
    \E i \in 1..(Len(s) - Len(sub) + 1) : SubSeq(s, i, i + Len(sub) - 1) = sub

\* s.find(sub), 1-based; 0 when absent
find(s, sub) ==
    LET at == { i \in 1..(Len(s) - Len(sub) + 1) : SubSeq(s, i, i + Len(sub) - 1) = sub }
    IN  IF at = {} THEN 0 ELSE CHOOSE i \in at : \A j \in at : i <= j

\* s.rstrip('/')
RECURSIVE rstrip_slash(_)
rstrip_slash(s) ==
    IF s # "" /\ CharAt(s, Len(s)) = "/" THEN rstrip_slash(SubSeq(s, 1, Len(s) - 1)) ELSE s

-----------------------------------------------------------------------------
(* urllib.parse.urljoin, for references without dot segments or fragments *)

\* the character classes of urlsplit and of the regular expressions of the
\* source:
\*   scheme          the characters of a url scheme
\*   letters         [a-zA-Z]
\*   quotes          the quote characters of the patterns; the backtick cannot
\*                   be written in a TLA+ string, and no modelled page holds one
\*   whitespace      \s, for the whitespace of the modelled pages
\*   word            \w
\*   path            [a-zA-Z0-9/_.-]
\*   url_stop        the characters excluded by the class [^\s<>quotes] of the
\*                   url pattern
\*   auth_stop       the characters excluded by the class written [^\'\"\\s]
\*                   in a raw string: quote, double quote, backslash and the
\*                   letter s (either case under re.IGNORECASE)
\*   attr            [a-zA-Z-]
\*   newline         what . does not match without re.DOTALL
\*   double_or_single  ['"]
CharClass ==
    [ scheme |-> Chars("abcdefghijklmnopqrstuvwxyzABCDEFGHIJKLMNOPQRSTUVWXYZ0123456789+-."),
      letters |-> Chars("abcdefghijklmnopqrstuvwxyzABCDEFGHIJKLMNOPQRSTUVWXYZ"),
      quotes |-> Chars("'\""),
      whitespace |-> Chars(" \n\t"),
      word |-> Chars("abcdefghijklmnopqrstuvwxyzABCDEFGHIJKLMNOPQRSTUVWXYZ0123456789_"),
      path |-> Chars("abcdefghijklmnopqrstuvwxyzABCDEFGHIJKLMNOPQRSTUVWXYZ0123456789/_.-"),
      url_stop |-> Chars(" \n\t<>\"'"),
      auth_stop |-> Chars("'\"\\sS"),
      attr |-> Chars("abcdefghijklmnopqrstuvwxyzABCDEFGHIJKLMNOPQRSTUVWXYZ-"),
      newline |-> Chars("\n"),
      double_or_single |-> Chars("'\"") ]

\* urlsplit: the reference carries its own scheme (text before the first ':'
\* that starts with a letter and holds scheme characters only)
has_scheme(ref) ==
    LET i == find(ref, ":") IN
    /\ i > 1
    /\ CharAt(ref, 1) \in CharClass.letters
    /\ \A j \in 1..(i - 1) : CharAt(ref, j) \in CharClass.scheme

\* "https://x.test" of "https://x.test/home": scheme://netloc
url_origin(url) ==
    LET start == find(url, "://") + 3
        rest  == SubSeq(url, start, Len(url))
        slash == find(rest, "/")
    IN  IF slash = 0 THEN url ELSE SubSeq(url, 1, start + slash - 2)

\* the directory of the base path, up to and including its last '/'
RECURSIVE dirname(_)
dirname(p) == IF p = "" THEN "/" ELSE IF CharAt(p, Len(p)) = "/" THEN p ELSE dirname(SubSeq(p, 1, Len(p) - 1))

\* urlsplit removes tab, carriage return and newline from a url
RECURSIVE remove_unsafe(_)
remove_unsafe(s) ==
    IF Len(s) <= 1 THEN (IF s \in {"\n", "\t", "\r"} THEN "" ELSE s)
    ELSE remove_unsafe(SubSeq(s, 1, Len(s) \div 2))
         \o remove_unsafe(SubSeq(s, Len(s) \div 2 + 1, Len(s)))

join_parts(base, ref) ==
    IF ref = "" THEN base
    ELSE IF has_scheme(ref) THEN ref
    ELSE IF startswith(ref, "//") THEN SubSeq(base, 1, find(base, ":")) \o ref
    ELSE IF startswith(ref, "/") THEN url_origin(base) \o ref
    ELSE IF startswith(ref, "?") THEN base \o ref
    ELSE url_origin(base) \o dirname(SubSeq(base, Len(url_origin(base)) + 1, Len(base))) \o ref

urljoin(base, url) == IF url = "" THEN base ELSE join_parts(base, remove_unsafe(url))

-----------------------------------------------------------------------------
(* re.findall for the regular expressions of the source.  A pattern is a    *)
(* record naming its shape; match_at gives the match that starts at         *)
(* position i, [end |-> 0] when there is none, and findall scans left to    *)
(* right for non-overlapping matches, returning each match's groups (one    *)
(* string for a pattern with at most one group, a tuple otherwise).         *)

NoMatch == [end |-> 0, groups |-> <<>>]

Least(S) == CHOOSE j \in S : \A h \in S : j <= h
Greatest(S) == CHOOSE j \in S : \A h \in S : h <= j

\* the least index of `at`, `none` when there is no index
least_or(at, none) == IF at = {} THEN none ELSE Least(at)

\* the last index of the longest run starting at i whose characters are in
\* `chars` (allowed = TRUE) or outside it (allowed = FALSE); i - 1 when empty
run_end(text, i, chars, allowed) ==
    least_or({ j \in i..Len(text) : (CharAt(text, j) \in chars) # allowed }, Len(text) + 1) - 1

\* the first index >= i at which sub occurs in text; 0 when there is none
find_from(text, sub, i) ==
    least_or({ j \in i..(Len(text) - Len(sub) + 1) : SubSeq(text, j, j + Len(sub) - 1) = sub }, 0)

\* text[i..] starts with p
starts_at(text, i, p) ==
    /\ i >= 1
    /\ i + Len(p) - 1 <= Len(text)
    /\ CharAt(text, i) = CharAt(p, 1)
    /\ SubSeq(text, i, i + Len(p) - 1) = p

\* text[i..] starts with p, ignoring case; lt is lower(text)
istarts_at(lt, i, p) == starts_at(lt, i, lower(p))

skip_ws(text, i) == run_end(text, i, CharClass.whitespace, TRUE) + 1

\* the group between the quote at i and the one after position e
quoted_to(text, i, e) ==
    IF e >= i + 1 /\ e + 1 <= Len(text)
    THEN [end |-> e + 1, groups |-> <<SubSeq(text, i + 1, e)>>]
    ELSE NoMatch

\* ['"`]([^'"`]+)['"`] at position i
quoted_at(text, i) ==
    IF i <= Len(text) /\ CharAt(text, i) \in CharClass.quotes
    THEN quoted_to(text, i, run_end(text, i + 1, CharClass.quotes, FALSE))
    ELSE NoMatch

\* [seps]\s*['"`]([^'"`]+)['"`] at position j
sep_at(text, j, seps) ==
    IF j <= Len(text) /\ CharAt(text, j) \in Chars(seps)
    THEN quoted_at(text, skip_ws(text, j + 1))
    ELSE NoMatch

\* \s*[seps]\s*['"`]([^'"`]+)['"`] at position i
arg_at(text, i, seps) == sep_at(text, skip_ws(text, i), seps)

\* the end of the line holding position i (the index of its last character)
line_end(text, i) == run_end(text, i, CharClass.newline, FALSE)

\* name\s*[seps]\s*['"`]([^'"`]+)['"`]
match_key(text, lt, i, pat) ==
    IF istarts_at(lt, i, pat.name)
    THEN arg_at(text, i + Len(pat.name), pat.seps)
    ELSE NoMatch

\* \.(get|post|put|delete|patch)\s*\(\s*['"`]([^'"`]+)['"`]
with_groups(before, m) ==
    IF m.end > 0 THEN [end |-> m.end, groups |-> before \o m.groups] ELSE NoMatch

dotverb_verb(text, i, v) ==
    with_groups(<<SubSeq(text, i + 1, i + Len(v))>>, arg_at(text, i + 1 + Len(v), "("))

\* no verb is a prefix of another: at most one is in `verbs`
dotverb_of(text, i, verbs) ==
    IF verbs = {} THEN NoMatch ELSE dotverb_verb(text, i, CHOOSE v \in verbs : TRUE)

match_dotverb(text, lt, i) ==
    dotverb_of(text, i, { v \in {"get", "post", "put", "delete", "patch"} :
                            starts_at(lt, i, "." \o v) })

\* XMLHttpRequest.*open\s*\(\s*['"`](\w+)['"`]\s*,\s*['"`]([^'"`]+)['"`]
xhr_first(text, m1) ==
    IF m1.end > 0 /\ \A h \in 1..Len(m1.groups[1]) : CharAt(m1.groups[1], h) \in CharClass.word
    THEN with_groups(m1.groups, arg_at(text, m1.end + 1, ","))
    ELSE NoMatch

\* the rest of the pattern from the word open at position j
xhr_open(text, j) == xhr_first(text, arg_at(text, j + 4, "("))

\* .* is greedy: the last open on the line from which the rest matches
xhr_last(text, opens) ==
    IF opens = {} THEN NoMatch ELSE xhr_open(text, Greatest(opens))

match_xhr(text, lt, i) ==
    IF starts_at(lt, i, "xmlhttprequest")
    THEN xhr_last(text, { j \in (i + 14)..line_end(text, i) :
                            starts_at(lt, j, "open") /\ xhr_open(text, j).end > 0 })
    ELSE NoMatch

\* ['"`](PREFIX[^'"`]*)['"`] for one of pat.prefixes; with pat.kw,
\* ['"`](PREFIX[^'"`]*kw[^'"`]*)['"`]; e is the end of the quoted run
quoted_prefix_to(text, lt, i, pat, e) ==
    IF /\ e + 1 <= Len(text)
       /\ \E k \in 1..Len(pat.prefixes) :
             /\ istarts_at(lt, i + 1, pat.prefixes[k])
             /\ e - i >= Len(pat.prefixes[k])
             /\ contains(SubSeq(lt, i + 1 + Len(pat.prefixes[k]), e), pat.kw)
    THEN [end |-> e + 1, groups |-> <<SubSeq(text, i + 1, e)>>]
    ELSE NoMatch

match_quoted_prefix(text, lt, i, pat) ==
    IF i <= Len(text) /\ CharAt(text, i) \in CharClass.quotes
    THEN quoted_prefix_to(text, lt, i, pat, run_end(text, i + 1, CharClass.quotes, FALSE))
    ELSE NoMatch

\* the match text[i..e]
span(text, i, e) == [end |-> e, groups |-> <<SubSeq(text, i, e)>>]

\* PREFIX[class]*, the class given by pat.chars / pat.allowed
match_prefix_run(text, lt, i, pat) ==
    IF istarts_at(lt, i, pat.name)
    THEN span(text, i, run_end(text, i + Len(pat.name), pat.chars, pat.allowed))
    ELSE NoMatch

\* PREFIX.*kw.* for one of pat.prefixes, without re.DOTALL: the match runs
\* to the end of the line eol
line_to(text, lt, i, pat, eol) ==
    IF \E k \in 1..Len(pat.prefixes) :
          /\ istarts_at(lt, i, pat.prefixes[k])
          /\ contains(SubSeq(lt, i + Len(pat.prefixes[k]), eol), pat.kw)
    THEN span(text, i, eol)
    ELSE NoMatch

match_line(text, lt, i, pat) == line_to(text, lt, i, pat, line_end(text, i))

\* /api/[class]*kw[class]*, the class being the complement of CharClass.auth_stop; the
\* first run is greedy, so kw is taken at its last place `at` in the run
mid_from(text, i, pat, at) ==
    IF at = {} THEN NoMatch
    ELSE span(text, i, run_end(text, Greatest(at) + Len(pat.kw), CharClass.auth_stop, FALSE))

mid_run(lt, i, pat, r) == { q \in (i + 5)..(r + 1) : istarts_at(lt, q, pat.kw) }

match_mid(text, lt, i, pat) ==
    IF starts_at(lt, i, "/api/")
    THEN mid_from(text, i, pat, mid_run(lt, i, pat, run_end(text, i + 5, CharClass.auth_stop, FALSE)))
    ELSE NoMatch

\* OPEN.*?CLOSE with re.DOTALL; c is the place of the first CLOSE
delim_to(text, i, pat, c) ==
    IF c > 0 THEN span(text, i, c + Len(pat.close) - 1) ELSE NoMatch

match_delim(text, i, pat) ==
    IF starts_at(text, i, pat.open)
    THEN delim_to(text, i, pat, find_from(text, pat.close, i + Len(pat.open)))
    ELSE NoMatch

\* NAME.* with re.DOTALL: everything from NAME to the end of the text
match_from(text, i, pat) ==
    IF starts_at(text, i, pat.name) THEN span(text, i, Len(text)) ELSE NoMatch

\* https?://[^\s<>"']+ with h the length of the scheme prefix
url_absolute(text, i, h, e) == IF e >= i + h THEN span(text, i, e) ELSE NoMatch

\* /[a-zA-Z0-9/_.-]+(?:\?[^\s<>"']*)? with ep the end of the path run
url_relative(text, i, ep) ==
    IF ep < i + 1 THEN NoMatch
    ELSE IF starts_at(text, ep + 1, "?")
    THEN span(text, i, run_end(text, ep + 2, CharClass.url_stop, FALSE))
    ELSE span(text, i, ep)

\* https?://[^\s<>"']+|/[a-zA-Z0-9/_.-]+(?:\?[^\s<>"']*)?
match_url(text, i) ==
    IF starts_at(text, i, "https://")
    THEN url_absolute(text, i, 8, run_end(text, i + 8, CharClass.url_stop, FALSE))
    ELSE IF starts_at(text, i, "http://")
    THEN url_absolute(text, i, 7, run_end(text, i + 7, CharClass.url_stop, FALSE))
    ELSE IF starts_at(text, i, "/")
    THEN url_relative(text, i, run_end(text, i + 1, CharClass.path, TRUE))
    ELSE NoMatch

\* data-[a-zA-Z-]*url[a-zA-Z-]*=['"]([^'"]+)['"]; r is the end of the
\* attribute name and e the end of the quoted value
data_attr_name(text, lt, i, r) ==
    IF /\ contains(SubSeq(lt, i + 5, r), "url")
       /\ starts_at(text, r + 1, "=")
       /\ r + 2 <= Len(text)
       /\ CharAt(text, r + 2) \in CharClass.double_or_single
    THEN quoted_to(text, r + 2, run_end(text, r + 3, CharClass.double_or_single, FALSE))
    ELSE NoMatch

match_data_attr(text, lt, i) ==
    IF starts_at(lt, i, "data-")
    THEN data_attr_name(text, lt, i, run_end(text, i + 5, CharClass.attr, TRUE))
    ELSE NoMatch

\* the match of pat that starts at position i; lt is lower(text), for the
\* patterns matched under re.IGNORECASE
match_at(text, lt, i, pat) ==
    CASE pat.shape = "key" -> match_key(text, lt, i, pat)
      [] pat.shape = "dotverb" -> match_dotverb(text, lt, i)
      [] pat.shape = "xhr" -> match_xhr(text, lt, i)
      [] pat.shape = "quoted_prefix" -> match_quoted_prefix(text, lt, i, pat)
      [] pat.shape = "prefix_run" -> match_prefix_run(text, lt, i, pat)
      [] pat.shape = "line" -> match_line(text, lt, i, pat)
      [] pat.shape = "mid" -> match_mid(text, lt, i, pat)
      [] pat.shape = "delim" -> match_delim(text, i, pat)
      [] pat.shape = "from" -> match_from(text, i, pat)
      [] pat.shape = "url" -> match_url(text, i)
      [] pat.shape = "data_attr" -> match_data_attr(text, lt, i)
      [] OTHER -> NoMatch

\* the matches among ms (ms[j] is the match that starts at j) scanned from
\* position i on: the leftmost one, then the leftmost one past its end
RECURSIVE findall_from(_, _, _)
findall_at(ms, starts, j) == <<ms[j].groups>> \o findall_from(ms, starts, ms[j].end + 1)

findall_from(ms, starts, i) ==
    IF \A j \in starts : j < i THEN <<>>
    ELSE findall_at(ms, starts, Least({ j \in starts : j >= i }))

findall_among(ms) == findall_from(ms, { i \in DOMAIN ms : ms[i].end > 0 }, 1)

findall_lower(pat, text, lt) ==
    findall_among([i \in 1..Len(text) |-> match_at(text, lt, i, pat)])

\* re.findall(pattern, text, flags): a sequence of group tuples
findall(pat, text) == findall_lower(pat, text, lower(text))

\* isinstance(match, tuple): the pattern has more than one group
is_tuple(match) == Len(match) > 1

-----------------------------------------------------------------------------
(* The fetched page.  A page is a sequence of items, one per line of the    *)
(* HTML text; an item is an element or script idiom with the reference it   *)
(* carries (for a script, its inline source text).                          *)

base_url == "https://x.test/home"

Item(kind, ref, method, names) ==
    [kind |-> kind, ref |-> ref, method |-> method, names |-> names]

\* the HTML source of an item
RECURSIVE input_tags(_)
input_tags(names) ==
    IF names = <<>> THEN ""
    ELSE "<input name=\"" \o Head(names) \o "\">" \o input_tags(Tail(names))

raw(item) ==
    CASE item.kind = "a" -> "<a href=\"" \o item.ref \o "\">link</a>"
      [] item.kind = "form" ->
            "<form action=\"" \o item.ref \o "\""
            \o (IF item.method = "" THEN "" ELSE " method=\"" \o item.method \o "\"")
            \o ">" \o input_tags(item.names) \o "</form>"
      [] item.kind = "meta" -> "<meta name=\"x\" content=\"" \o item.ref \o "\">"
      [] item.kind = "data" -> "<div data-api-url=\"" \o item.ref \o "\"></div>"
      [] item.kind = "script" -> "<script>" \o item.ref \o "</script>"
      [] item.kind = "comment" -> "<!-- " \o item.ref \o " -->"

\* response.text
RECURSIVE page_text(_)
page_text(p) ==
    IF p = <<>> THEN ""
    ELSE IF Len(p) = 1 THEN raw(p[1])
    ELSE raw(p[1]) \o "\n" \o page_text(Tail(p))

\* soup.find_all(tag): the items of one kind, in document order
find_all(p, kind) == SelectSeq(p, LAMBDA it : it.kind = kind)

-----------------------------------------------------------------------------
(* APIEndpoint and the classifier predicates of APIDiscovery *)

\* the dataclass APIEndpoint; headers is never populated by any strategy
APIEndpoint(url, method, parameters, source, confidence) ==
    [url |-> url, method |-> method, parameters |-> parameters,
     headers |-> <<>>, source |-> source, confidence |-> confidence]

\* re.search(pattern, url, re.IGNORECASE) for each of self.api_patterns:
\*   /api/v?\d*/?.*   matches iff the url holds "/api/"
\*   /rest/.*         iff it holds "/rest/"
\*   /graphql/?.*     iff it holds "/graphql"
\*   /endpoints?/.*   iff it holds "/endpoint/" or "/endpoints/"
\*   /services?/.*    iff it holds "/service/" or "/services/"
\*   \.json$  \.xml$  iff it ends with ".json" / ".xml"
\*   /json/.*  /xml/.* iff it holds "/json/" / "/xml/"
is_api_endpoint(url) ==
    LET u == lower(url) IN
    \/ contains(u, "/api/")
    \/ contains(u, "/rest/")
    \/ contains(u, "/graphql")
    \/ contains(u, "/endpoint/") \/ contains(u, "/endpoints/")
    \/ contains(u, "/service/") \/ contains(u, "/services/")
    \/ endswith(u, ".json")
    \/ endswith(u, ".xml")
    \/ contains(u, "/json/")
    \/ contains(u, "/xml/")

api_indicators ==
    <<"api", "rest", "graphql", "endpoint", "service", "json", "xml", "data", "ajax", "fetch">>

is_potential_endpoint(url) ==
    IF url = "" \/ startswith(url, "javascript:") \/ startswith(url, "mailto:")
    THEN FALSE
    ELSE \E k \in 1..Len(api_indicators) : contains(lower(url), api_indicators[k])

-----------------------------------------------------------------------------
(* The extraction strategies of APIDiscovery.  Base confidences are in      *)
(* hundredths.                                                               *)

ConfLink == 70
ConfScript == 80
ConfForm == 60
ConfAjax == 90
ConfMeta == 50
ConfDataAttr == 80
ConfComment == 40
ConfAuthContent == 80
ConfAuthDataAttr == 70
ConfAuthTest == 95

\* a link strategy that emits every href
RECURSIVE links_unfiltered(_)
links_unfiltered(links) ==
    IF links = <<>> THEN <<>>
    ELSE <<APIEndpoint(urljoin(base_url, Head(links).ref), "GET", <<>>, "html_link",
                       ConfLink)>>
         \o links_unfiltered(Tail(links))

\* _discover_from_links
RECURSIVE discover_from_links(_)
discover_from_links(links) ==
    IF links = <<>> THEN <<>>
    ELSE LET href == Head(links).ref
             full_url == urljoin(base_url, href)
         IN  (IF is_api_endpoint(full_url)
              THEN <<APIEndpoint(full_url, "GET", <<>>, "html_link", ConfLink)>>
              ELSE <<>>)
             \o discover_from_links(Tail(links))

\* fetch_patterns of _discover_from_scripts.  The third pattern,
\* ajax\s*\(\s*{.*url\s*:\s*..., needs an ajax({url: ...}) call, which no
\* modelled script holds.
fetch_patterns ==
    << [shape |-> "key", name |-> "fetch", seps |-> "("],
       [shape |-> "xhr"],
       [shape |-> "key", name |-> ".get", seps |-> "("],
       [shape |-> "key", name |-> ".post", seps |-> "("] >>

\* the endpoints of one script for the matches of one pattern
RECURSIVE script_matches(_)
script_matches(matches) ==
    IF matches = <<>> THEN <<>>
    ELSE LET match == Head(matches)
             method == IF is_tuple(match) THEN match[1] ELSE "GET"
             url == IF is_tuple(match) THEN match[2] ELSE match[1]
             full_url == urljoin(base_url, url)
         IN  (IF is_potential_endpoint(full_url)
              THEN <<APIEndpoint(full_url, IF method # "" THEN upper(method) ELSE "GET",
                                 <<>>, "javascript", ConfScript)>>
              ELSE <<>>)
             \o script_matches(Tail(matches))

RECURSIVE script_patterns(_, _)
script_patterns(text, k) ==
    IF k > Len(fetch_patterns) THEN <<>>
    ELSE script_matches(findall(fetch_patterns[k], text)) \o script_patterns(text, k + 1)

\* _discover_from_scripts: every script with a non-empty string, every pattern
RECURSIVE discover_from_scripts(_)
discover_from_scripts(scripts) ==
    IF scripts = <<>> THEN <<>>
    ELSE (IF Head(scripts).ref # "" THEN script_patterns(Head(scripts).ref, 1) ELSE <<>>)
         \o discover_from_scripts(Tail(scripts))

\* a form strategy that keeps the method as the page wrote it
RECURSIVE forms_method_as_written(_)
forms_method_as_written(forms) ==
    IF forms = <<>> THEN <<>>
    ELSE (IF Head(forms).ref # ""
          THEN <<APIEndpoint(urljoin(base_url, Head(forms).ref),
                             IF Head(forms).method = "" THEN "GET" ELSE Head(forms).method,
                             Head(forms).names, "html_form", ConfForm)>>
          ELSE <<>>)
         \o forms_method_as_written(Tail(forms))

\* _discover_from_forms; method "" stands for a form without a method attribute
RECURSIVE discover_from_forms(_)
discover_from_forms(forms) ==
    IF forms = <<>> THEN <<>>
    ELSE LET form == Head(forms)
             action == form.ref
             method == upper(IF form.method = "" THEN "GET" ELSE form.method)
         IN  (IF action # ""
              THEN <<APIEndpoint(urljoin(base_url, action), method, form.names,
                                 "html_form", ConfForm)>>
              ELSE <<>>)
             \o discover_from_forms(Tail(forms))

\* advanced_patterns of _discover_from_ajax_calls, in source order.  The
\* patterns that need an axios., $.ajax({, api.x(, endpoint=, baseURL= or
\* url: idiom are kept with the shape "key" where they have it; the axios,
\* $.ajax and api.x patterns need idioms no modelled page holds.
advanced_patterns ==
    << [shape |-> "key", name |-> "endpoint", seps |-> "=:"],
       [shape |-> "key", name |-> "baseURL", seps |-> "=:"],
       [shape |-> "key", name |-> "fetch", seps |-> "("],
       [shape |-> "dotverb"],
       [shape |-> "key", name |-> "url", seps |-> ":"],
       [shape |-> "quoted_prefix", prefixes |-> <<"/api/", "/client/api/">>, kw |-> ""],
       [shape |-> "quoted_prefix", prefixes |-> <<"http://", "https://">>, kw |-> "spond"],
       [shape |-> "prefix_run", name |-> "/client/api/",
        chars |-> CharClass.path, allowed |-> TRUE] >>

\* urljoin(self.base_url, match) raises TypeError for a tuple match
RaisesTypeError(matches) == \E k \in 1..Len(matches) : is_tuple(matches[k])

RECURSIVE ajax_matches(_)
ajax_matches(matches) ==
    IF matches = <<>> THEN <<>>
    ELSE LET full_url == urljoin(base_url, Head(matches)[1])
         IN  (IF is_potential_endpoint(full_url)
              THEN <<APIEndpoint(full_url, "GET", <<>>, "ajax_call", ConfAjax)>>
              ELSE <<>>)
             \o ajax_matches(Tail(matches))

RECURSIVE ajax_patterns(_, _)
ajax_patterns(html_content, k) ==
    IF k > Len(advanced_patterns) THEN <<>>
    ELSE ajax_matches(findall(advanced_patterns[k], html_content))
         \o ajax_patterns(html_content, k + 1)

\* whether _discover_from_ajax_calls raises on this text
ajax_raises(html_content) ==
    \E k \in 1..Len(advanced_patterns) :
        RaisesTypeError(findall(advanced_patterns[k], html_content))

\* _discover_from_ajax_calls, when it does not raise
discover_from_ajax_calls(html_content) == ajax_patterns(html_content, 1)

\* _discover_from_meta_tags: the meta tags, then the data-api-url elements
RECURSIVE meta_contents(_)
meta_contents(metas) ==
    IF metas = <<>> THEN <<>>
    ELSE LET content == Head(metas).ref
         IN  (IF is_potential_endpoint(content)
              THEN <<APIEndpoint(urljoin(base_url, content), "GET", <<>>, "meta_tag", ConfMeta)>>
              ELSE <<>>)
             \o meta_contents(Tail(metas))

RECURSIVE data_attributes(_)
data_attributes(elements) ==
    IF elements = <<>> THEN <<>>
    ELSE <<APIEndpoint(urljoin(base_url, Head(elements).ref), "GET", <<>>,
                       "data_attribute", ConfDataAttr)>>
         \o data_attributes(Tail(elements))

discover_from_meta_tags(p) ==
    meta_contents(find_all(p, "meta")) \o data_attributes(find_all(p, "data"))

\* _discover_from_comments: the urls found in one comment
RECURSIVE comment_urls(_)
comment_urls(urls) ==
    IF urls = <<>> THEN <<>>
    ELSE LET full_url == urljoin(base_url, Head(urls)[1])
         IN  (IF is_potential_endpoint(full_url)
              THEN <<APIEndpoint(full_url, "GET", <<>>, "comment", ConfComment)>>
              ELSE <<>>)
             \o comment_urls(Tail(urls))

RECURSIVE comments_loop(_)
comments_loop(all_comments) ==
    IF all_comments = <<>> THEN <<>>
    ELSE comment_urls(findall([shape |-> "url"], Head(all_comments)[1]))
         \o comments_loop(Tail(all_comments))

\* the HTML comments, then the matches of //.* and of /\*.*?\*/ (all with re.DOTALL)
all_comments_of(html_content) ==
    findall([shape |-> "delim", open |-> "<!--", close |-> "-->"], html_content)
    \o findall([shape |-> "from", name |-> "//"], html_content)
    \o findall([shape |-> "delim", open |-> "/*", close |-> "*/"], html_content)

discover_from_comments(html_content) == comments_loop(all_comments_of(html_content))

\* auth_patterns of _discover_authenticated_content, in source order
auth_patterns ==
    << [shape |-> "line", prefixes |-> <<"api/", "api.">>, kw |-> "user"],
       [shape |-> "line", prefixes |-> <<"api/", "api.">>, kw |-> "profile"],
       [shape |-> "line", prefixes |-> <<"api/", "api.">>, kw |-> "dashboard"],
       [shape |-> "line", prefixes |-> <<"api/", "api.">>, kw |-> "admin"],
       [shape |-> "line", prefixes |-> <<"api/", "api.">>, kw |-> "settings"],
       [shape |-> "line", prefixes |-> <<"api/", "api.">>, kw |-> "account"],
       [shape |-> "line", prefixes |-> <<"/user/">>, kw |-> ""],
       [shape |-> "line", prefixes |-> <<"/profile/">>, kw |-> ""],
       [shape |-> "line", prefixes |-> <<"/dashboard/">>, kw |-> ""],
       [shape |-> "line", prefixes |-> <<"/admin/">>, kw |-> ""],
       [shape |-> "prefix_run", name |-> "/client/api/",
        chars |-> CharClass.auth_stop, allowed |-> FALSE],
       [shape |-> "mid", kw |-> "spond"],
       [shape |-> "mid", kw |-> "event"],
       [shape |-> "mid", kw |-> "group"],
       [shape |-> "mid", kw |-> "member"],
       [shape |-> "mid", kw |-> "notification"],
       [shape |-> "mid", kw |-> "chat"],
       [shape |-> "mid", kw |-> "message"],
       [shape |-> "prefix_run", name |-> "client/api/",
        chars |-> CharClass.auth_stop, allowed |-> FALSE],
       [shape |-> "prefix_run", name |-> "api/sponds",
        chars |-> CharClass.auth_stop, allowed |-> FALSE],
       [shape |-> "prefix_run", name |-> "api/events",
        chars |-> CharClass.auth_stop, allowed |-> FALSE],
       [shape |-> "prefix_run", name |-> "api/groups",
        chars |-> CharClass.auth_stop, allowed |-> FALSE],
       [shape |-> "prefix_run", name |-> "api/users",
        chars |-> CharClass.auth_stop, allowed |-> FALSE] >>

RECURSIVE auth_matches(_)
auth_matches(matches) ==
    IF matches = <<>> THEN <<>>
    ELSE <<APIEndpoint(urljoin(base_url, Head(matches)[1]), "GET", <<>>,
                       "authenticated_content", ConfAuthContent)>>
         \o auth_matches(Tail(matches))

RECURSIVE auth_pattern_loop(_, _)
auth_pattern_loop(html_content, k) ==
    IF k > Len(auth_patterns) THEN <<>>
    ELSE auth_matches(findall(auth_patterns[k], html_content))
         \o auth_pattern_loop(html_content, k + 1)

RECURSIVE auth_data_attrs(_)
auth_data_attrs(matches) ==
    IF matches = <<>> THEN <<>>
    ELSE (IF is_potential_endpoint(Head(matches)[1])
          THEN <<APIEndpoint(urljoin(base_url, Head(matches)[1]), "GET", <<>>,
                             "authenticated_data_attr", ConfAuthDataAttr)>>
          ELSE <<>>)
         \o auth_data_attrs(Tail(matches))

\* _discover_authenticated_content, past its authentication guard
discover_authenticated_content(html_content) ==
    auth_pattern_loop(html_content, 1)
    \o auth_data_attrs(findall([shape |-> "data_attr"], html_content))

-----------------------------------------------------------------------------
(* The merger *)

\* a key that also tells the sources apart
key_with_source(endpoint) == <<endpoint.url, endpoint.method, endpoint.source>>

\* key = (endpoint.url, endpoint.method)
key(endpoint) == <<endpoint.url, endpoint.method>>

\* the loop of _deduplicate_endpoints from position i on, with the set `seen`
\* and the list `unique` (unique_endpoints) built so far
RECURSIVE dedup_loop(_, _, _, _)
dedup_loop(eps, i, seen, unique) ==
    IF i > Len(eps) THEN unique
    ELSE IF key(eps[i]) \notin seen
         THEN dedup_loop(eps, i + 1, seen \cup {key(eps[i])}, Append(unique, eps[i]))
         ELSE dedup_loop(eps, i + 1, seen, unique)

\* a merger that builds its output by inserting at the front
RECURSIVE dedup_prepend(_)
dedup_prepend(eps) ==
    IF eps = <<>> THEN <<>>
    ELSE IF \E i \in 1..(Len(eps) - 1) : key(eps[i]) = key(eps[Len(eps)])
         THEN dedup_prepend(SubSeq(eps, 1, Len(eps) - 1))
         ELSE <<eps[Len(eps)]>> \o dedup_prepend(SubSeq(eps, 1, Len(eps) - 1))

\* a merger in which a later endpoint replaces the one seen before under the
\* same key
dedup_replace(unique, ep) ==
    IF \E i \in DOMAIN unique : key(unique[i]) = key(ep)
    THEN [i \in DOMAIN unique |-> IF key(unique[i]) = key(ep) THEN ep ELSE unique[i]]
    ELSE Append(unique, ep)

RECURSIVE dedup_keep_last(_)
dedup_keep_last(eps) ==
    IF eps = <<>> THEN <<>>
    ELSE dedup_replace(dedup_keep_last(SubSeq(eps, 1, Len(eps) - 1)), eps[Len(eps)])

\* _deduplicate_endpoints
deduplicate_endpoints(eps) == dedup_loop(eps, 1, {}, <<>>)

SeqsUpTo(S, n) == UNION { [1..k -> S] : k \in 0..n }


-----------------------------------------------------------------------------
(* The live validator *)

Min2(a, b) == IF a <= b THEN a ELSE b
Max2(a, b) == IF a >= b THEN a ELSE b

Response(status, content_type) ==
    [kind |-> "response", status |-> status, content_type |-> content_type]
\* session.head raised requests.RequestException (connection error, timeout,
\* or no connection adapter for the url's scheme)
RequestException == [kind |-> "exception", status |-> 0, content_type |-> ""]

\* any(ct in content_type for ct in ['json', 'xml', 'api']), content_type lowered
api_content_type(response) ==
    \E content_type \in {lower(response.content_type)} :
        \E ct \in {"json", "xml", "api"} : contains(content_type, ct)

\* a validator that matches the content type without lowering it
validate_case_sensitive(endpoint, outcome) ==
    IF outcome.kind = "exception"
    THEN [endpoint EXCEPT !.confidence = Max2(@ - 30, 10)]
    ELSE IF outcome.status < 400
    THEN [endpoint EXCEPT !.confidence =
            IF \E ct \in {"json", "xml", "api"} : contains(outcome.content_type, ct)
            THEN Min2(Min2(@ + 20, 100) + 10, 100)
            ELSE Min2(@ + 20, 100)]
    ELSE endpoint

\* a validator that applies the adjustment of a probe twice
validate_twice(endpoint, outcome) ==
    LET once(c) ==
            IF outcome.kind = "exception" THEN Max2(c - 30, 10)
            ELSE IF outcome.status < 400
            THEN (IF api_content_type(outcome) THEN Min2(Min2(c + 20, 100) + 10, 100)
                  ELSE Min2(c + 20, 100))
            ELSE c
    IN  [endpoint EXCEPT !.confidence = once(once(@))]

\* the body of the loop of _validate_endpoints for one endpoint and the
\* outcome of its HEAD probe
validate_one(endpoint, outcome) ==
    IF outcome.kind = "exception"
    THEN [endpoint EXCEPT !.confidence = Max2(@ - 30, 10)]
    ELSE IF outcome.status < 400
    THEN LET c == Min2(endpoint.confidence + 20, 100)
         IN  [endpoint EXCEPT !.confidence =
                 IF api_content_type(outcome) THEN Min2(c + 10, 100) ELSE c]
    ELSE endpoint

\* what a HEAD probe of url can end in: requests only connects to http and
\* https urls and raises InvalidSchema, a RequestException, for any other
ProbeOutcomes(url) ==
    IF startswith(url, "http://") \/ startswith(url, "https://")
    THEN { Response(200, "Application/JSON; charset=utf-8"),
           Response(200, "text/html"),
           Response(500, "application/json"),
           RequestException }
    ELSE { RequestException }

-----------------------------------------------------------------------------
(* discover_endpoints *)

MaxPageItems == 1
NumAuthPaths == 1
NumCommonPaths == 1

PageItems ==
    { Item("a", "/api/v2/users", "", <<>>),
      Item("a", "mailto:dev@x.test?subject=/api/help", "", <<>>),
      Item("a", "/about", "", <<>>),
      Item("form", "/submit", "post", <<"q">>),
      Item("form", "javascript:void(0)", "", <<>>),
      Item("form", "", "get", <<"hidden">>),
      Item("form", "search", "", <<"term", "page">>),
      Item("script", "fetch('/api/v2/users')", "", <<>>),
      Item("script", "new XMLHttpRequest().open('post', '/rest/items')", "", <<>>),
      Item("script", "$.get('/api/x')", "", <<>>),
      Item("script", "fetch('/submit')", "", <<>>),
      Item("meta", "/data/feed.json", "", <<>>),
      Item("meta", "/v1/users", "", <<>>),
      Item("data", "mailto:api@x.test", "", <<>>),
      Item("data", "/client/api/sponds", "", <<>>),
      Item("comment", "https://x.test/api/old", "", <<>>) }

\* common_auth_paths of _test_authenticated_endpoints
common_auth_paths ==
    << "/client/api/user", "/client/api/sponds", "/client/api/events",
       "/client/api/groups", "/client/api/calendar", "/client/api/invitations",
       "/client/api/messages", "/api/user", "/api/sponds", "/api/events",
       "/api/groups", "/api/calendar", "/api/invitations", "/api/messages",
       "/api/profile", "/api/dashboard", "/api/settings" >>

\* what a probe of a common path can end in
CommonPathOutcomes ==
    { Response(200, "text/html"), Response(200, "Application/JSON"),
      Response(404, "text/html"), RequestException }

NoRequests == [fetch |-> 0, head |-> 0, auth_get |-> 0, sleep |-> 0, via |-> {}]

\* the futures of scan_common_paths over the first n common paths, before the
\* first submit; `answers` is what the target can answer a probe with
NoPool(n, answers) ==
    [paths |-> n, answers |-> answers, submitted |-> 0,
     status |-> [i \in 1..n |-> "new"],
     outcome |-> [i \in 1..n |-> [kind |-> "none"]], endpoints |-> <<>>]

\* the return values of the extraction strategies of discover_endpoints for
\* the page p: each strategy is a function of response.text (or of its parse
\* tree) and base_url alone.  _discover_from_ajax_calls returns a list or
\* raises TypeError.
extract(p) ==
    [authenticated_content |-> discover_authenticated_content(page_text(p)),
     links |-> discover_from_links(find_all(p, "a")),
     scripts |-> discover_from_scripts(find_all(p, "script")),
     forms |-> discover_from_forms(find_all(p, "form")),
     ajax_raises |-> ajax_raises(page_text(p)),
     ajax |-> IF ajax_raises(page_text(p)) THEN <<>>
              ELSE discover_from_ajax_calls(page_text(p)),
     meta |-> discover_from_meta_tags(p),
     comments |-> discover_from_comments(page_text(p))]

\* discover_endpoints is about to be called on one of `pages`
InitDiscover(pages) ==
    /\ page \in pages
    /\ extracted = extract(page)
    /\ authenticated \in BOOLEAN
    /\ session = IF authenticated THEN {"headers"} ELSE {}
    /\ fetched = "none"
    /\ endpoints = <<>>
    /\ unique_endpoints = <<>>
    /\ validated = <<>>
    /\ ai = 0
    /\ vi = 0
    /\ ran = {}
    /\ requests = NoRequests
    /\ lastProbe = [kind |-> "none"]
    /\ returned = <<>>

MainIdle ==
    /\ opts = [scan_common_paths |-> FALSE, include_swagger |-> FALSE,
               confidence_threshold |-> 0]
    /\ scans = [common |-> <<>>, swagger |-> <<>>, robots |-> <<>>, sitemap |-> <<>>]
    /\ main_endpoints = <<>>
    /\ report = [unique_endpoints |-> <<>>, filtered_endpoints |-> <<>>]
    /\ pool = NoPool(NumCommonPaths, CommonPathOutcomes)

MergeIdle ==
    /\ merge_in = <<>>
    /\ merge_out = <<>>
    /\ merge_again = <<>>
    /\ mpc = "idle"
    /\ call = [fn |-> "none"]

Init ==
    /\ pc = "discover"
    /\ InitDiscover(SeqsUpTo(PageItems, MaxPageItems))
    /\ MainIdle
    /\ MergeIdle

\* a handler for a failed fetch that goes on with the extraction
fetch_failed_continues == "auth_content"

\* where discover_endpoints goes when session.get or raise_for_status raises
\* requests.RequestException: to its `return []`
fetch_failed_goes_to == "returned"

\* the page fetch: self.session.get and raise_for_status; self.session is the
\* Session APIDiscovery.__init__ created
Fetch ==
    /\ pc = "discover"
    /\ requests' = [requests EXCEPT !.fetch = @ + 1,
                                    !.via = @ \cup {[kind |-> "fetch", session |-> "discovery"]}]
    /\ \E outcome \in {"ok", "connection_error", "timeout", "http_error"} :
          IF outcome = "ok"
          THEN /\ fetched' = "ok"
               /\ pc' = "auth_content"
          ELSE /\ fetched' = "failed"
               /\ pc' = fetch_failed_goes_to
    /\ returned' = <<>>
    /\ UNCHANGED <<page, extracted, authenticated, endpoints, unique_endpoints, validated, ai, vi, ran,
                   lastProbe, mainVars, mergeVars>>

\* one extraction strategy: endpoints.extend(found)
Extend(strategy, found, next) ==
    /\ endpoints' = endpoints \o found
    /\ ran' = ran \cup {strategy}
    /\ pc' = next
    /\ UNCHANGED <<page, extracted, authenticated, fetched, unique_endpoints, validated, ai, vi,
                   requests, lastProbe, returned, mainVars, mergeVars>>

\* a discovery that runs the authenticated-content strategy for any caller
AuthContentUngated ==
    /\ pc = "auth_content"
    /\ Extend("authenticated_content", extracted.authenticated_content, "links")

\* _discover_authenticated_content is called only `if
\* self.authenticator.is_authenticated()`, and returns [] itself `if not
\* self.authenticator or not self.authenticator.authenticated`
AuthContent ==
    /\ pc = "auth_content"
    /\ IF authenticated
       THEN Extend("authenticated_content", extracted.authenticated_content, "links")
       ELSE /\ pc' = "links"
            /\ UNCHANGED <<discoverVars, mainVars, mergeVars>>

Links ==
    /\ pc = "links"
    /\ Extend("links", extracted.links, "scripts")

Scripts ==
    /\ pc = "scripts"
    /\ Extend("scripts", extracted.scripts, "forms")

Forms ==
    /\ pc = "forms"
    /\ Extend("forms", extracted.forms, "ajax")

\* _discover_from_ajax_calls; its TypeError is no RequestException and leaves
\* discover_endpoints
Ajax ==
    /\ pc = "ajax"
    /\ IF extracted.ajax_raises
       THEN /\ pc' = "raised"
            /\ ran' = ran \cup {"ajax"}
            /\ UNCHANGED <<page, extracted, authenticated, fetched, endpoints, unique_endpoints,
                           validated, ai, vi, requests, lastProbe, returned, mainVars,
                           mergeVars>>
       ELSE Extend("ajax", extracted.ajax, "meta")

Meta ==
    /\ pc = "meta"
    /\ Extend("meta", extracted.meta, "comments")

Comments ==
    /\ pc = "comments"
    /\ Extend("comments", extracted.comments, "auth_test")

\* the result of one GET of _test_authenticated_endpoints: on a 200 the
\* endpoint is appended, then the ajax strategy runs on the body inside a
\* bare try/except, so its TypeError only loses the body's endpoints
auth_test_found(auth_url, outcome) ==
    IF outcome.kind = "response" /\ outcome.status = 200
    THEN <<APIEndpoint(auth_url, "GET", <<>>, "authenticated_endpoint_test", ConfAuthTest)>>
         \o (IF ajax_raises(outcome.body) THEN <<>> ELSE discover_from_ajax_calls(outcome.body))
    ELSE <<>>

\* what a GET of an authenticated path can end in; a 200 carries a body
AuthTestOutcomes ==
    { [kind |-> "response", status |-> 200, body |-> b] :
        b \in { "{}", "fetch('/api/v2/users')", "$.get('/api/x')" } }
    \cup { [kind |-> "response", status |-> st, body |-> ""] : st \in {401, 404} }
    \cup { [kind |-> "exception", status |-> 0, body |-> ""] }

\* auth_test_found for each of the first paths of common_auth_paths and each
\* outcome of its GET
auth_test_results ==
    { <<k, outcome,
        auth_test_found(urljoin(url_origin(base_url), common_auth_paths[k]), outcome)>> :
        k \in 1..NumAuthPaths, outcome \in AuthTestOutcomes }

\* _test_authenticated_endpoints runs only `if self.authenticator and
\* self.authenticator.authenticated`
AuthTestSkip ==
    /\ pc = "auth_test"
    /\ ~authenticated
    /\ pc' = "dedup"
    /\ UNCHANGED <<discoverVars, mainVars, mergeVars>>

\* one iteration of the loop over common_auth_paths; the GET goes through
\* self.authenticator.session, the Session main() logged in with
AuthTestProbe ==
    /\ pc = "auth_test"
    /\ authenticated
    /\ ai < NumAuthPaths
    /\ \E outcome \in AuthTestOutcomes :
          endpoints' = endpoints
              \o (CHOOSE r \in auth_test_results : r[1] = ai + 1 /\ r[2] = outcome)[3]
    /\ ai' = ai + 1
    /\ requests' = [requests EXCEPT !.auth_get = @ + 1,
                                    !.via = @ \cup {[kind |-> "auth_get", session |-> "caller"]}]
    /\ UNCHANGED <<pc, page, extracted, authenticated, fetched, unique_endpoints, validated, vi, ran,
                   lastProbe, returned, mainVars, mergeVars>>

AuthTestDone ==
    /\ pc = "auth_test"
    /\ authenticated
    /\ ai >= NumAuthPaths
    /\ pc' = "dedup"
    /\ UNCHANGED <<discoverVars, mainVars, mergeVars>>

\* unique_endpoints = self._deduplicate_endpoints(endpoints)
Dedup ==
    /\ pc = "dedup"
    /\ unique_endpoints' = deduplicate_endpoints(endpoints)
    /\ validated' = <<>>
    /\ vi' = 0
    /\ pc' = "validate"
    /\ UNCHANGED <<page, extracted, authenticated, fetched, endpoints, ai, ran, requests, lastProbe,
                   returned, mainVars, mergeVars>>

\* a validator that drops the endpoint whose probe raised
append_unless_failed(list, endpoint, outcome) ==
    IF outcome.kind = "exception" THEN list ELSE Append(list, endpoint)

\* validated.append(endpoint), in the try and in the except branch alike
append_validated(list, endpoint, outcome) == Append(list, endpoint)

\* a validator that sleeps only after a probe that returned
after_probe_unless_failed(outcome) == IF outcome.kind = "exception" THEN "validate" ELSE "sleep"

\* time.sleep(0.1) follows the try statement: it is reached from the try
\* branch and from the except branch alike
after_probe(outcome) == "sleep"

\* the loop of _validate_endpoints issues the HEAD request of the next
\* endpoint through self.session
ValidateIssue ==
    /\ pc = "validate"
    /\ vi < Len(unique_endpoints)
    /\ requests' = [requests EXCEPT !.head = @ + 1,
                                    !.via = @ \cup {[kind |-> "head", session |-> "discovery"]}]
    /\ pc' = "probing"
    /\ UNCHANGED <<page, extracted, authenticated, fetched, endpoints, unique_endpoints, validated, ai,
                   vi, ran, lastProbe, returned, mainVars, mergeVars>>

\* session.head returns or raises: the confidence update and
\* validated.append
ValidateProbe ==
    /\ pc = "probing"
    /\ \E outcome \in ProbeOutcomes(unique_endpoints[vi + 1].url) :
          /\ validated' = append_validated(validated,
                                           validate_one(unique_endpoints[vi + 1], outcome),
                                           outcome)
          /\ lastProbe' = [kind |-> outcome.kind, outcome |-> outcome, index |-> vi + 1,
                           before |-> unique_endpoints[vi + 1]]
          /\ pc' = after_probe(outcome)
    /\ vi' = vi + 1
    /\ UNCHANGED <<page, extracted, authenticated, fetched, endpoints, unique_endpoints, ai, ran,
                   requests, returned, mainVars, mergeVars>>

\* time.sleep(0.1), the rate limit between two probes
ValidateSleep ==
    /\ pc = "sleep"
    /\ requests' = [requests EXCEPT !.sleep = @ + 1]
    /\ pc' = "validate"
    /\ UNCHANGED <<page, extracted, authenticated, fetched, endpoints, unique_endpoints, validated, ai,
                   vi, ran, lastProbe, returned, mainVars, mergeVars>>

\* a validator that may return before it has probed every endpoint
ValidateReturnEarly ==
    /\ pc = "validate"
    /\ returned' = validated
    /\ pc' = "returned"
    /\ UNCHANGED <<page, extracted, authenticated, fetched, endpoints, unique_endpoints, validated, ai,
                   vi, ran, requests, lastProbe, mainVars, mergeVars>>

\* return validated_endpoints
ValidateReturn ==
    /\ pc = "validate"
    /\ vi >= Len(unique_endpoints)
    /\ returned' = validated
    /\ pc' = "returned"
    /\ UNCHANGED <<page, extracted, authenticated, fetched, endpoints, unique_endpoints, validated, ai,
                   vi, ran, requests, lastProbe, mainVars, mergeVars>>

Next ==
    \/ Fetch
    \/ AuthContent
    \/ Links
    \/ Scripts
    \/ Forms
    \/ Ajax
    \/ Meta
    \/ Comments
    \/ AuthTestSkip
    \/ AuthTestProbe
    \/ AuthTestDone
    \/ Dedup
    \/ ValidateIssue
    \/ ValidateProbe
    \/ ValidateSleep
    \/ ValidateReturn

Spec == Init /\ [][Next]_vars

\* discover_endpoints is one sequential call: while a step is possible the
\* interpreter takes it, and every request it waits for returns or raises
\* within its timeout
SpecLive == Init /\ [][Next]_vars /\ WF_vars(Next)

-----------------------------------------------------------------------------
(* EndpointScanner *)

ConfPathScan == 50
ConfPathScanApi == 80
ConfRobots == 60
ConfSitemap == 70
ConfSwaggerDocs == 90
ConfSwaggerSpec == 100

\* _looks_like_api_path
looks_like_api_path(path) ==
    \E indicator \in { "api", "rest", "graphql", "endpoint", "service", "json", "xml",
                       "data", "ajax", "fetch", "webhook" } :
        contains(lower(path), indicator)

\* EndpointScanner.common_paths
scanner_common_paths ==
    << "/api", "/api/v1", "/api/v2", "/rest", "/graphql", "/endpoints", "/services",
       "/data", "/ajax", "/client/api", "/client/api/sponds", "/client/api/events",
       "/client/api/groups", "/client/api/user", "/client/api/notifications" >>

\* a probe that takes every response, whatever its status, for a hit
test_endpoint_any_status(url, outcome) ==
    IF outcome.kind = "response"
    THEN <<APIEndpoint(url, "GET", <<>>, "path_scan",
                       IF api_content_type(outcome) THEN ConfPathScanApi ELSE ConfPathScan)>>
    ELSE <<>>

\* _test_endpoint: a sequence of one endpoint, or the empty sequence for None;
\* the bare except swallows every failure of the HEAD request
test_endpoint(url, outcome) ==
    IF outcome.kind = "response" /\ outcome.status < 400
    THEN <<APIEndpoint(url, "GET", <<>>, "path_scan",
                       IF api_content_type(outcome) THEN ConfPathScanApi ELSE ConfPathScan)>>
    ELSE <<>>

\* str.strip() for the whitespace of the modelled documents
strip(s) ==
    LET inside == { i \in 1..Len(s) : CharAt(s, i) \notin CharClass.whitespace }
    IN  IF inside = {} THEN "" ELSE SubSeq(s, Least(inside), Greatest(inside))

\* str.split(sep): the pieces of s between the occurrences of sep
RECURSIVE split(_, _)
split(s, sep) ==
    LET at == find(s, sep)
    IN  IF at = 0 THEN <<s>>
        ELSE <<SubSeq(s, 1, at - 1)>> \o split(SubSeq(s, at + Len(sep), Len(s)), sep)

\* the body of the loop over the lines of robots.txt; path is
\* line.split(':', 1)[1].strip()
robots_line(base, line) ==
    IF startswith(strip(line), "Disallow:") \/ startswith(strip(line), "Allow:")
    THEN LET path == strip(SubSeq(line, find(line, ":") + 1, Len(line)))
         IN  IF looks_like_api_path(path)
             THEN <<APIEndpoint(rstrip_slash(base) \o path, "GET", <<>>,
                                "robots_txt", ConfRobots)>>
             ELSE <<>>
    ELSE <<>>

RECURSIVE robots_lines(_, _)
robots_lines(base, lines) ==
    IF lines = <<>> THEN <<>>
    ELSE robots_line(base, Head(lines)) \o robots_lines(base, Tail(lines))

\* scan_robots_txt: response.text.split('\\n') splits on a backslash
\* followed by the letter n, not on line ends
scan_robots_txt(base, response) ==
    IF response.kind = "response" /\ response.status = 200
    THEN robots_lines(base, split(response.text, "\\n"))
    ELSE <<>>

\* the <url><loc> texts of one parsed sitemap; "" is a missing or empty loc
RECURSIVE sitemap_locs(_)
sitemap_locs(locs) ==
    IF locs = <<>> THEN <<>>
    ELSE (IF Head(locs) # "" /\ looks_like_api_path(Head(locs))
          THEN <<APIEndpoint(Head(locs), "GET", <<>>, "sitemap", ConfSitemap)>>
          ELSE <<>>)
         \o sitemap_locs(Tail(locs))

\* the body of the loop of scan_sitemap for one sitemap document
sitemap_response(response) ==
    IF response.kind = "response" /\ response.status = 200 /\ response.parses
    THEN sitemap_locs(response.locs)
    ELSE <<>>

\* a scan that gives up at the first sitemap it cannot fetch or parse
RECURSIVE scan_sitemap_stops(_, _)
scan_sitemap_stops(responses, k) ==
    IF k > Len(responses) THEN <<>>
    ELSE IF responses[k].kind = "response" /\ responses[k].status = 200 /\ responses[k].parses
    THEN sitemap_response(responses[k]) \o scan_sitemap_stops(responses, k + 1)
    ELSE <<>>

\* scan_sitemap for the first n sitemap paths
RECURSIVE scan_sitemap(_, _)
scan_sitemap(responses, k) ==
    IF k > Len(responses) THEN <<>>
    ELSE sitemap_response(responses[k]) \o scan_sitemap(responses, k + 1)

\* swagger_paths of discover_swagger_docs
swagger_paths ==
    << "/swagger.json", "/swagger.yaml", "/api-docs", "/api-docs.json", "/openapi.json",
       "/openapi.yaml", "/v1/api-docs", "/v2/api-docs", "/swagger/v1/swagger.json",
       "/swagger-ui.html", "/docs" >>

\* a scanner that gives a declared endpoint the confidence of a bare hit
swagger_spec_as_docs(api_url, method) ==
    APIEndpoint(api_url, upper(method), <<>>, "swagger_spec", ConfSwaggerDocs)

\* the endpoint built for one declared path and method
swagger_spec_endpoint(api_url, method) ==
    APIEndpoint(api_url, upper(method), <<>>, "swagger_spec", ConfSwaggerSpec)

RECURSIVE swagger_methods(_, _)
swagger_methods(api_url, methods) ==
    IF methods = <<>> THEN <<>>
    ELSE <<swagger_spec_endpoint(api_url, Head(methods))>>
         \o swagger_methods(api_url, Tail(methods))

\* the loop over swagger_data['paths']
RECURSIVE swagger_path_keys(_, _, _)
swagger_path_keys(base, base_path, paths) ==
    IF paths = <<>> THEN <<>>
    ELSE swagger_methods(rstrip_slash(base) \o base_path \o Head(paths).path_key,
                         Head(paths).methods)
         \o swagger_path_keys(base, base_path, Tail(paths))

\* the body of the loop of discover_swagger_docs for one path
swagger_response(base, path, response) ==
    IF response.kind = "response" /\ response.status = 200
    THEN <<APIEndpoint(rstrip_slash(base) \o path, "GET", <<>>, "swagger_docs",
                       ConfSwaggerDocs)>>
         \o (IF /\ contains(path, "json")
                /\ startswith(response.content_type, "application/json")
                /\ response.json.decodes
                /\ response.json.has_paths
             THEN swagger_path_keys(base, response.json.basePath, response.json.paths)
             ELSE <<>>)
    ELSE <<>>

RECURSIVE discover_swagger_docs(_, _, _)
discover_swagger_docs(base, responses, k) ==
    IF k > Len(responses) THEN <<>>
    ELSE swagger_response(base, swagger_paths[k], responses[k])
         \o discover_swagger_docs(base, responses, k + 1)

-----------------------------------------------------------------------------
(* main(): discover_endpoints, the supplementary scans, the final merge *)

NumSwaggerPaths == 1
NumSitemaps == 1

\* the pages main() is run against
MainPages ==
    { <<>>,
      <<Item("script", "fetch('/api/v2/users')", "", <<>>)>>,
      <<Item("script", "$.get('/api/x')", "", <<>>)>> }

SwaggerResponses ==
    { [kind |-> "response", status |-> 200, content_type |-> "application/json",
       json |-> [decodes |-> TRUE, has_paths |-> TRUE, basePath |-> "",
                 paths |-> << [path_key |-> "/api", methods |-> <<"get", "post">>] >>]],
      [kind |-> "response", status |-> 200, content_type |-> "text/html",
       json |-> [decodes |-> FALSE, has_paths |-> FALSE, basePath |-> "", paths |-> <<>>]],
      [kind |-> "response", status |-> 200, content_type |-> "application/json",
       json |-> [decodes |-> FALSE, has_paths |-> FALSE, basePath |-> "", paths |-> <<>>]],
      [kind |-> "response", status |-> 404, content_type |-> "text/html",
       json |-> [decodes |-> FALSE, has_paths |-> FALSE, basePath |-> "", paths |-> <<>>]],
      [kind |-> "exception", status |-> 0, content_type |-> "",
       json |-> [decodes |-> FALSE, has_paths |-> FALSE, basePath |-> "", paths |-> <<>>]] }

\* robots.txt bodies: lines ended by line feeds, and "lines" separated by a
\* backslash and the letter n
RobotsResponses ==
    { [kind |-> "response", status |-> 200, text |-> t] :
        t \in { "User-agent: *\nDisallow: /api/private",
                "Disallow: /api/private\nAllow: /rest/open",
                "Disallow: /api/private\\nAllow: /public" } }
    \cup { [kind |-> "response", status |-> 404, text |-> ""],
           [kind |-> "exception", status |-> 0, text |-> ""] }

SitemapResponses ==
    { [kind |-> "response", status |-> 200, parses |-> TRUE,
       locs |-> <<"https://x.test/api/v2/users", "https://x.test/home/api",
                  "https://x.test/about", "">>],
      [kind |-> "response", status |-> 200, parses |-> FALSE, locs |-> <<>>],
      [kind |-> "response", status |-> 404, parses |-> FALSE, locs |-> <<>>],
      [kind |-> "exception", status |-> 0, parses |-> FALSE, locs |-> <<>>] }

InitMain ==
    /\ pc = "login"
    /\ InitDiscover(MainPages)
    /\ authenticated = FALSE
    /\ MainIdle
    /\ MergeIdle

\* what a way of logging in leaves behind: Authenticator.authenticated and
\* the authentication state written to the Session main() created for the
\* login.  login_spond_token updates the headers before it tests the token;
\* login_spond updates them when the API login returns a token; a form login
\* leaves the cookies of the response; login_with_cookies and
\* login_with_headers cannot fail.
login(method, ok) ==
    CASE method = "none" -> [authenticated |-> FALSE, session |-> {}]
      [] method = "spond_token" -> [authenticated |-> ok, session |-> {"headers"}]
      [] method = "spond_api" ->
            [authenticated |-> ok, session |-> IF ok THEN {"headers"} ELSE {}]
      [] method \in {"spond_form", "generic"} ->
            [authenticated |-> ok, session |-> IF ok THEN {"cookies"} ELSE {}]
      [] method = "cookies" -> [authenticated |-> TRUE, session |-> {"cookies"}]
      [] method = "headers" -> [authenticated |-> TRUE, session |-> {"headers"}]

\* main() up to the construction of APIDiscovery: the login the arguments ask
\* for, on a Session of its own; a failed login continues with
\* authenticator = None
Login ==
    /\ pc = "login"
    /\ \E method \in {"none", "spond_token", "spond_api", "spond_form", "generic",
                       "cookies", "headers"},
          ok \in BOOLEAN :
          /\ authenticated' = login(method, ok).authenticated
          /\ session' = login(method, ok).session
    /\ pc' = "discover"
    /\ UNCHANGED <<page, extracted, fetched, endpoints, unique_endpoints, validated, ai, vi, ran,
                   requests, lastProbe, returned, opts, scans, main_endpoints, report,
                   pool, mergeVars>>

\* endpoints = discovery.discover_endpoints(); scan_common_paths is called
\* when args.scan_common_paths is set
ScanCommonPaths ==
    /\ pc = "returned"
    /\ \E flag \in BOOLEAN :
          /\ opts' = [opts EXCEPT !.scan_common_paths = flag]
          /\ pc' = IF flag THEN "common_paths" ELSE "swagger"
    /\ main_endpoints' = returned
    /\ UNCHANGED <<discoverVars, scans, report, pool, session, mergeVars>>

\* EndpointScanner.__init__(max_workers=5)
max_workers == 5

\* the probes a worker thread is executing
in_flight(p) == Cardinality({ i \in 1..p.paths : p.status[i] = "running" })

\* an executor that starts a thread for every work item
worker_always_free(running) == TRUE

\* ThreadPoolExecutor(max_workers=self.max_workers): a work item waits in the
\* queue until one of the max_workers threads is idle
worker_free(running) == running < max_workers

\* a probe that stores what the response set in the session it was given
probe_keeps_cookies(s) == s \cup {"cookies"}

\* _test_endpoint reads the session it is given (session.head) and writes
\* nothing to it
session_after_probe(s) == s

\* executor.submit(self._test_endpoint, url, session) for the next path
PoolSubmit ==
    /\ pc = "common_paths"
    /\ pool.submitted < pool.paths
    /\ pool' = [pool EXCEPT !.submitted = @ + 1, !.status[pool.submitted + 1] = "queued"]
    /\ UNCHANGED <<pc, discoverVars, opts, scans, main_endpoints, report, session,
                   mergeVars>>

\* an idle worker thread takes the oldest work item of the queue and issues
\* its HEAD request through discovery.session
PoolStart ==
    /\ pc = "common_paths"
    /\ worker_free(in_flight(pool))
    /\ \E i \in 1..pool.paths :
          /\ pool.status[i] = "queued"
          /\ \A h \in 1..(i - 1) : pool.status[h] # "queued"
          /\ pool' = [pool EXCEPT !.status[i] = "running"]
    /\ requests' = [requests EXCEPT
                        !.via = @ \cup {[kind |-> "path_scan", session |-> "discovery"]}]
    /\ UNCHANGED <<pc, page, extracted, authenticated, fetched, endpoints, unique_endpoints, validated,
                   ai, vi, ran, lastProbe, returned, opts, scans, main_endpoints, report,
                   session, mergeVars>>

\* a probe in flight ends: session.head returns a response or raises
PoolComplete ==
    /\ pc = "common_paths"
    /\ \E i \in 1..pool.paths, outcome \in pool.answers :
          /\ pool.status[i] = "running"
          /\ pool' = [pool EXCEPT !.status[i] = "done", !.outcome[i] = outcome]
    /\ session' = session_after_probe(session)
    /\ UNCHANGED <<pc, discoverVars, opts, scans, main_endpoints, report, mergeVars>>

\* the loop over as_completed(futures), entered when every path has been
\* submitted: the next completed future, endpoints.append(result) unless the
\* result is None
PoolCollect ==
    /\ pc = "common_paths"
    /\ pool.submitted = pool.paths
    /\ \E i \in 1..pool.paths :
          /\ pool.status[i] = "done"
          /\ pool' = [pool EXCEPT
                         !.status[i] = "collected",
                         !.endpoints = @ \o test_endpoint(rstrip_slash(base_url)
                                                             \o scanner_common_paths[i],
                                                         pool.outcome[i])]
    /\ UNCHANGED <<pc, discoverVars, opts, scans, main_endpoints, report, session,
                   mergeVars>>

\* as_completed is exhausted, the executor shuts down, scan_common_paths
\* returns and main() extends its list
PoolReturn ==
    /\ pc = "common_paths"
    /\ pool.submitted = pool.paths
    /\ \A i \in 1..pool.paths : pool.status[i] = "collected"
    /\ scans' = [scans EXCEPT !.common = pool.endpoints]
    /\ main_endpoints' = main_endpoints \o pool.endpoints
    /\ pc' = "swagger"
    /\ UNCHANGED <<discoverVars, opts, report, pool, session, mergeVars>>

\* discover_swagger_docs when args.include_swagger is set
DiscoverSwaggerDocs ==
    /\ pc = "swagger"
    /\ \E flag \in BOOLEAN :
          /\ opts' = [opts EXCEPT !.include_swagger = flag]
          /\ \E responses \in [1..NumSwaggerPaths -> SwaggerResponses] :
                scans' = [scans EXCEPT !.swagger =
                            IF flag THEN discover_swagger_docs(base_url, responses, 1)
                            ELSE <<>>]
    /\ main_endpoints' = main_endpoints \o scans'.swagger
    /\ pc' = "robots"
    /\ UNCHANGED <<discoverVars, report, pool, session, mergeVars>>

ScanRobotsTxt ==
    /\ pc = "robots"
    /\ \E response \in RobotsResponses :
          scans' = [scans EXCEPT !.robots = scan_robots_txt(base_url, response)]
    /\ main_endpoints' = main_endpoints \o scans'.robots
    /\ pc' = "sitemap"
    /\ UNCHANGED <<discoverVars, opts, report, pool, session, mergeVars>>

ScanSitemap ==
    /\ pc = "sitemap"
    /\ \E responses \in [1..NumSitemaps -> SitemapResponses] :
          scans' = [scans EXCEPT !.sitemap = scan_sitemap(responses, 1)]
    /\ main_endpoints' = main_endpoints \o scans'.sitemap
    /\ pc' = "merge"
    /\ UNCHANGED <<discoverVars, opts, report, pool, session, mergeVars>>

\* [ep for ep in unique_endpoints if ep.confidence >= threshold]
filter_by_confidence(eps, threshold) ==
    SelectSeq(eps, LAMBDA ep : ep.confidence >= threshold)

\* unique_endpoints = discovery._deduplicate_endpoints(endpoints) and the
\* confidence filter
MergeAndFilter ==
    /\ pc = "merge"
    /\ \E threshold \in {0, 70} :
          /\ opts' = [opts EXCEPT !.confidence_threshold = threshold]
          /\ report' = [unique_endpoints |-> deduplicate_endpoints(main_endpoints),
                        filtered_endpoints |->
                            filter_by_confidence(deduplicate_endpoints(main_endpoints),
                                                 threshold)]
    /\ pc' = "done"
    /\ UNCHANGED <<discoverVars, scans, main_endpoints, pool, session, mergeVars>>

\* `except Exception` of main(): the scan ends with exit status 1
ScanFailed ==
    /\ pc = "raised"
    /\ pc' = "exit_1"
    /\ UNCHANGED <<discoverVars, mainVars, mergeVars>>

NextMain ==
    \/ Login
    \/ Next
    \/ ScanCommonPaths
    \/ PoolSubmit
    \/ PoolStart
    \/ PoolComplete
    \/ PoolCollect
    \/ PoolReturn
    \/ DiscoverSwaggerDocs
    \/ ScanRobotsTxt
    \/ ScanSitemap
    \/ MergeAndFilter
    \/ ScanFailed

SpecMain == InitMain /\ [][NextMain]_vars

-----------------------------------------------------------------------------
(* scan_common_paths on its own: the call main() makes after a failed page *)
(* fetch, on enough paths for the pool to be full, against a target that   *)
(* answers a probe with a page, with a 404 or not at all                   *)

NumPoolPaths == 6

\* discover_endpoints has returned [] for a page that could not be fetched, no
\* login was asked for
InitPool ==
    /\ pc = "returned"
    /\ page = <<>>
    /\ extracted = extract(page)
    /\ authenticated = FALSE
    /\ session = {}
    /\ fetched = "failed"
    /\ endpoints = <<>>
    /\ unique_endpoints = <<>>
    /\ validated = <<>>
    /\ ai = 0
    /\ vi = 0
    /\ ran = {}
    /\ requests = [NoRequests EXCEPT
                      !.fetch = 1, !.via = {[kind |-> "fetch", session |-> "discovery"]}]
    /\ lastProbe = [kind |-> "none"]
    /\ returned = <<>>
    /\ opts = [scan_common_paths |-> FALSE, include_swagger |-> FALSE,
               confidence_threshold |-> 0]
    /\ scans = [common |-> <<>>, swagger |-> <<>>, robots |-> <<>>, sitemap |-> <<>>]
    /\ main_endpoints = <<>>
    /\ report = [unique_endpoints |-> <<>>, filtered_endpoints |-> <<>>]
    /\ pool = NoPool(NumPoolPaths, {Response(200, "text/html"), Response(404, "text/html"),
                                    RequestException})
    /\ MergeIdle

SpecPool ==
    InitPool /\ [][\/ ScanCommonPaths
                    \/ PoolSubmit
                    \/ PoolStart
                    \/ PoolComplete
                    \/ PoolCollect
                    \/ PoolReturn]_vars

-----------------------------------------------------------------------------
(* Merger harness: the merger applied to every bounded endpoint sequence *)

MaxMergeLen == 3

\* the merger is about to be applied, the pipeline is at rest; the input
\* holds endpoints of two urls and two methods, each in three (source, base
\* confidence, parameters) combinations the strategies and scans produce
InitMerge ==
    /\ pc = "idle"
    /\ InitDiscover({<<>>})
    /\ authenticated = FALSE
    /\ MainIdle
    /\ merge_in \in SeqsUpTo({ APIEndpoint(u, m, v[3], v[1], v[2]) :
                                u \in {"https://x.test/api/v2/users", "https://x.test/submit"},
                                m \in {"GET", "POST"},
                                v \in { <<"html_form", 60, <<"q">> >>, <<"javascript", 80, <<>> >>,
                                        <<"swagger_spec", 100, <<>> >> } },
                            MaxMergeLen)
    /\ merge_out = <<>>
    /\ merge_again = <<>>
    /\ mpc = "input"
    /\ call = [fn |-> "none"]

MergeOnce ==
    /\ mpc = "input"
    /\ merge_out' = deduplicate_endpoints(merge_in)
    /\ mpc' = "merged"
    /\ UNCHANGED <<merge_in, merge_again, call, pc, discoverVars, mainVars>>

MergeTwice ==
    /\ mpc = "merged"
    /\ merge_again' = deduplicate_endpoints(merge_out)
    /\ mpc' = "remerged"
    /\ UNCHANGED <<merge_in, merge_out, call, pc, discoverVars, mainVars>>

SpecMerge == InitMerge /\ [][MergeOnce \/ MergeTwice]_vars

-----------------------------------------------------------------------------
(* _validate_endpoints on its own: any list of endpoints, any probe outcomes *)

MaxValidateLen == 2

\* _validate_endpoints is about to be called on a list of endpoints of the
\* confidences an APIEndpoint can carry into the validator: the dataclass
\* default 0.0, a value below the lower clamp, and values whose boost stays
\* below, reaches and passes the upper clamp
InitValidate ==
    /\ pc = "validate"
    /\ page = <<>>
    /\ extracted = extract(page)
    /\ authenticated = FALSE
    /\ session = {}
    /\ fetched = "none"
    /\ endpoints = <<>>
    /\ unique_endpoints \in
          SeqsUpTo({ APIEndpoint("https://x.test/api/v2/users", "GET", <<>>, "unknown", c) :
                       c \in {0, 5, 60, 90, 100} },
                   MaxValidateLen)
    /\ validated = <<>>
    /\ ai = 0
    /\ vi = 0
    /\ ran = {}
    /\ requests = NoRequests
    /\ lastProbe = [kind |-> "none"]
    /\ returned = <<>>
    /\ MainIdle
    /\ MergeIdle

SpecValidate ==
    InitValidate /\ [][ValidateIssue \/ ValidateProbe \/ ValidateSleep \/ ValidateReturn]_vars

-----------------------------------------------------------------------------
(* One call of a pure function of the classifier or of the scanner, on an  *)
(* argument kept in the state: _is_potential_endpoint on a url,            *)
(* scan_robots_txt on the answer for robots.txt, scan_sitemap and          *)
(* discover_swagger_docs on the answers for their first paths              *)

NumScanDocs == 3

\* the call has not returned yet
InitCall ==
    /\ pc = "idle"
    /\ InitDiscover({<<>>})
    /\ authenticated = FALSE
    /\ MainIdle
    /\ merge_in = <<>>
    /\ merge_out = <<>>
    /\ merge_again = <<>>
    /\ mpc = "idle"
    /\ \E fn \in {"_is_potential_endpoint", "scan_robots_txt", "scan_sitemap",
                   "discover_swagger_docs"} :
          \E arg \in CASE fn = "_is_potential_endpoint" ->
                            { o \o p \o q :
                                o \in {"", "https://x.test", "https://api.x.test",
                                       "http://data.x.test:8080"},
                                p \in {"", "/", "/about", "/api/users", "/Data/x", "/home.xml"},
                                q \in {"", "?q=1", "?format=JSON"} }
                            \cup {"javascript:void(0)", "javascript:fetch('/api')",
                                  "mailto:api@x.test", "data:text/plain,hi"}
                       [] fn = "scan_robots_txt" -> RobotsResponses
                       [] fn = "scan_sitemap" -> [1..NumScanDocs -> SitemapResponses]
                       [] fn = "discover_swagger_docs" -> [1..NumScanDocs -> SwaggerResponses] :
             call = [fn |-> fn, arg |-> arg, returned |-> FALSE]

\* the function returns
Call ==
    /\ call.fn # "none"
    /\ ~call.returned
    /\ call' = [fn |-> call.fn, arg |-> call.arg, returned |-> TRUE,
                result |->
                    CASE call.fn = "_is_potential_endpoint" -> is_potential_endpoint(call.arg)
                      [] call.fn = "scan_robots_txt" -> scan_robots_txt(base_url, call.arg)
                      [] call.fn = "scan_sitemap" -> scan_sitemap(call.arg, 1)
                      [] call.fn = "discover_swagger_docs" ->
                            discover_swagger_docs(base_url, call.arg, 1)]
    /\ UNCHANGED <<pc, discoverVars, mainVars, merge_in, merge_out, merge_again, mpc>>

SpecCall == InitCall /\ [][Call]_vars

\* the input entities with key k, in input order
Group(eps, k) == SelectSeq(eps, LAMBDA e : key(e) = k)

Keys(eps) == { key(eps[i]) : i \in 1..Len(eps) }

MaxConfidence(eps) ==
    CHOOSE c \in { eps[i].confidence : i \in 1..Len(eps) } :
        \A i \in 1..Len(eps) : eps[i].confidence <= c

\* C1: after merging, every key of the input has exactly one output entity,
\* whose confidence is the maximum confidence of the inputs with that key.
C1_MaxOfGroup ==
    mpc # "input" =>
        \A k \in Keys(merge_in) :
            /\ Len(Group(merge_out, k)) = 1
            /\ Group(merge_out, k)[1].confidence = MaxConfidence(Group(merge_in, k))

\* C2: merging the merger's output again returns it unchanged (same entities,
\* same order, same fields).
C2_Idempotent == mpc = "remerged" => merge_again = merge_out

\* a twice-merged input with a duplicate and with two distinct keys
C2_Witness ==
    /\ mpc = "remerged"
    /\ Len(merge_out) >= 2
    /\ Len(merge_out) < Len(merge_in)

\* no two entities of eps have the same url and the same method
UniquePairs(eps) ==
    \A i, j \in 1..Len(eps) :
        (eps[i].url = eps[j].url /\ eps[i].method = eps[j].method) => i = j

\* C3: the list discover_endpoints returns holds no two entities with the same
\* (url, method), and neither does the list main() builds by appending the
\* scans' endpoints and merging again, nor its filtered part.
C3_UniquePairs ==
    /\ UniquePairs(returned)
    /\ pc = "done" =>
          /\ UniquePairs(report.unique_endpoints)
          /\ UniquePairs(report.filtered_endpoints)

\* a finished run in which discover_endpoints merged a duplicate, a scan found
\* an endpoint discover_endpoints had returned, and the final merge removed it
C3_Witness ==
    /\ pc = "done"
    /\ Len(unique_endpoints) < Len(endpoints)
    /\ Len(returned) >= 1
    /\ \E i \in 1..Len(scans.sitemap) :
          /\ scans.sitemap[i].url = returned[1].url
          /\ scans.sitemap[i].method = returned[1].method
    /\ Len(report.unique_endpoints) < Len(main_endpoints)

\* C4: a validation probe that ends in a network failure, a timeout or a
\* response with status >= 400 sets the confidence to max(confidence - 0.3, 0.1).
C4_FailedProbeDemotes ==
    (/\ lastProbe.kind # "none"
     /\ (lastProbe.kind = "exception" \/ lastProbe.outcome.status >= 400))
    => validated[lastProbe.index].confidence = Max2(lastProbe.before.confidence - 30, 10)

\* the content-type header holds json, xml or api, in any case
HoldsApiToken(content_type) ==
    \E token \in {"json", "xml", "api"} : contains(lower(content_type), token)

\* C5: a validation probe answered with a status below 400 sets the confidence
\* to min(confidence + 0.2, 1.0), and to min(that + 0.1, 1.0) when the
\* content-type holds json, xml or api in any case; 0.6 with a JSON
\* content-type becomes 0.9 and 0.9 becomes 1.0.
C5_SuccessBoost ==
    (lastProbe.kind = "response" /\ lastProbe.outcome.status < 400)
    => /\ validated[lastProbe.index].confidence =
             IF HoldsApiToken(lastProbe.outcome.content_type)
             THEN Min2(Min2(lastProbe.before.confidence + 20, 100) + 10, 100)
             ELSE Min2(lastProbe.before.confidence + 20, 100)
       /\ (lastProbe.before.confidence = 60 /\ HoldsApiToken(lastProbe.outcome.content_type))
             => validated[lastProbe.index].confidence = 90
       /\ (lastProbe.before.confidence = 90 /\ HoldsApiToken(lastProbe.outcome.content_type))
             => validated[lastProbe.index].confidence = 100

\* an endpoint of confidence 0.6 probed with a 200 whose content-type spells
\* JSON in capitals
C5_Witness ==
    /\ lastProbe.kind = "response"
    /\ lastProbe.outcome.status = 200
    /\ lastProbe.outcome.content_type = "Application/JSON; charset=utf-8"
    /\ lastProbe.before.confidence = 60
    /\ validated[lastProbe.index].confidence = 90

\* C6: every endpoint the validator has processed has a confidence between 0.1
\* and 1.0, whatever the probe ended in.
C6_ConfidenceRange ==
    \A i \in 1..Len(validated) :
        validated[i].confidence >= 10 /\ validated[i].confidence <= 100

\* C7: _validate_endpoints returns exactly the endpoints it was given, each
\* once and in the given order, with only the confidence possibly changed.
C7_ValidatorKeepsAll ==
    (pc = "returned" /\ fetched = "ok")
    => /\ Len(returned) = Len(unique_endpoints)
       /\ \A i \in 1..Len(unique_endpoints) :
             returned[i] = [unique_endpoints[i] EXCEPT !.confidence = returned[i].confidence]

\* a returned list of two or more endpoints, one whose probe raised and one
\* whose confidence changed
C7_Witness ==
    /\ pc = "returned"
    /\ Len(unique_endpoints) >= 2
    /\ lastProbe.kind = "exception"
    /\ \E i \in 1..Len(returned) : returned[i].confidence # unique_endpoints[i].confidence

\* C8: no endpoint an extraction strategy has emitted has a url that begins
\* with javascript: or mailto:.
C8_NoScriptOrMailUrl ==
    \A i \in 1..Len(endpoints) :
        /\ ~startswith(endpoints[i].url, "javascript:")
        /\ ~startswith(endpoints[i].url, "mailto:")

\* the endpoints of eps whose source is swagger_spec have confidence 1.0
SwaggerSpecAtOne(eps) ==
    \A i \in 1..Len(eps) : eps[i].source = "swagger_spec" => eps[i].confidence = 100

\* C9: an endpoint whose source is swagger_spec has confidence 1.0 in the list
\* discover_swagger_docs returns, in main()'s list, and in the merged and the
\* filtered list main() ends with.
C9_SwaggerSpecConfidence ==
    /\ SwaggerSpecAtOne(scans.swagger)
    /\ SwaggerSpecAtOne(main_endpoints)
    /\ SwaggerSpecAtOne(report.unique_endpoints)
    /\ SwaggerSpecAtOne(report.filtered_endpoints)

\* a finished run whose swagger document declared two endpoints, one of which
\* lost its key to an endpoint found earlier and one of which is in the final list
C9_Witness ==
    /\ pc = "done"
    /\ \E i \in 1..Len(report.unique_endpoints) :
          report.unique_endpoints[i].source = "swagger_spec"
    /\ \E i \in 1..Len(scans.swagger), j \in 1..Len(report.unique_endpoints) :
          /\ scans.swagger[i].source = "swagger_spec"
          /\ scans.swagger[i].url = report.unique_endpoints[j].url
          /\ scans.swagger[i].method = report.unique_endpoints[j].method
          /\ report.unique_endpoints[j].source # "swagger_spec"

\* C10: when the fetch of the target page fails, discover_endpoints returns
\* the empty list, no extraction strategy has run, and no validation probe and
\* no authenticated-path probe has been issued.
C10_FetchFailure ==
    fetched = "failed" =>
        /\ pc = "returned"
        /\ returned = <<>>
        /\ endpoints = <<>>
        /\ ran = {}
        /\ requests.head = 0
        /\ requests.auth_get = 0

\* a failed fetch of a page that holds an endpoint, in an authenticated run
C10_Witness ==
    /\ fetched = "failed"
    /\ pc = "returned"
    /\ authenticated
    /\ page # <<>>
    /\ requests.fetch = 1

\* C11: once the primary page has been fetched, discover_endpoints returns a
\* list: no failure inside an extraction strategy, for any page content and
\* any match shape, propagates out of discover_endpoints or aborts the
\* strategies that remain
C11_NoFailurePropagates == fetched = "ok" => pc # "raised"

\* C20: the endpoints the common-path and well-known-document scans produce
\* are probed by the validator: every endpoint of the final set is one the
\* validator has probed and adjusted
C20_FinalSetValidated ==
    pc = "done" =>
        \A i \in DOMAIN report.unique_endpoints :
            \E j \in DOMAIN validated : validated[j] = report.unique_endpoints[i]

\* C12: whatever the probes of robots.txt, the sitemaps and the swagger
\* documents end in, the scan does not fail in them and the final list holds
\* every endpoint discover_endpoints returned, with all its fields unchanged
\* (the filtered list: every one of them at or above the threshold)
C12_ScansKeepDiscovered ==
    /\ pc \in {"common_paths", "swagger", "robots", "sitemap", "merge", "done"} =>
          SubSeq(main_endpoints, 1, Len(returned)) = returned
    /\ pc = "done" =>
          /\ SubSeq(report.unique_endpoints, 1, Len(returned)) = returned
          /\ SubSeq(report.filtered_endpoints, 1,
                    Len(filter_by_confidence(returned, opts.confidence_threshold)))
                = filter_by_confidence(returned, opts.confidence_threshold)
    /\ pc \in {"raised", "exit_1"} =>
          /\ "ajax" \in ran
          /\ scans = [common |-> <<>>, swagger |-> <<>>, robots |-> <<>>, sitemap |-> <<>>]

\* a finished run in which the swagger probe was made and found nothing (an
\* exception, a 404 or a body that is not JSON), the sitemap named an
\* endpoint discover_endpoints had returned with another confidence, and the
\* final list holds the returned one
C12_Witness ==
    /\ pc = "done"
    /\ opts.include_swagger
    /\ scans.swagger = <<>>
    /\ Len(returned) >= 1
    /\ \E i \in 1..Len(scans.sitemap) :
          /\ key(scans.sitemap[i]) = key(returned[1])
          /\ scans.sitemap[i].confidence # returned[1].confidence
    /\ report.unique_endpoints[1] = returned[1]

\* the forms of the page that have a non-empty action, in document order
FormsWithAction == SelectSeq(find_all(page, "form"), LAMBDA form : form.ref # "")

\* the endpoints the form strategy has added to the candidate list
FormEndpoints == SelectSeq(endpoints, LAMBDA ep : ep.source = "html_form")

\* C14: the form strategy emits exactly one endpoint for each form with a
\* non-empty action: url = the action resolved against the base url, method =
\* the form's method in upper case (GET when absent), parameters = the names
\* of its named fields in document order, source html_form, confidence 0.6;
\* a form with no action emits nothing
C14_FormEndpoints ==
    IF "forms" \in ran
    THEN /\ Len(FormEndpoints) = Len(FormsWithAction)
         /\ \A i \in DOMAIN FormsWithAction :
               FormEndpoints[i] =
                   [url |-> urljoin(base_url, FormsWithAction[i].ref),
                    method |-> IF FormsWithAction[i].method = "" THEN "GET"
                               ELSE upper(FormsWithAction[i].method),
                    parameters |-> FormsWithAction[i].names,
                    source |-> "html_form",
                    confidence |-> 60,
                    headers |-> <<>>]
    ELSE FormEndpoints = <<>>

\* the form strategy has run on <form action="/submit" method="post"> with
\* the field q and emitted the POST endpoint of the scenario
C14_Witness ==
    /\ "forms" \in ran
    /\ \E i \in DOMAIN page : page[i] = Item("form", "/submit", "post", <<"q">>)
    /\ \E i \in DOMAIN endpoints :
          /\ endpoints[i].url = "https://x.test/submit"
          /\ endpoints[i].method = "POST"
          /\ endpoints[i].parameters = <<"q">>
          /\ endpoints[i].source = "html_form"

\* a raw match the strategies do not reject: non-empty, neither javascript:
\* nor mailto:
NotRejected(url) ==
    url # "" /\ ~startswith(url, "javascript:") /\ ~startswith(url, "mailto:")

\* the candidate list holds an endpoint of `source` for the raw match
Converted(url, source) ==
    \E j \in DOMAIN endpoints :
        endpoints[j].url = urljoin(base_url, url) /\ endpoints[j].source = source

\* the urls of the matches of one pattern
MatchUrls(matches) ==
    { IF is_tuple(matches[m]) THEN matches[m][2] ELSE matches[m][1] : m \in DOMAIN matches }

\* C13: in the script, form and meta tag / data attribute strategies every
\* raw match that is not rejected becomes an endpoint, whether or not its url
\* holds one of the api keywords
C13_ApiScopedKept ==
    /\ "scripts" \in ran =>
          \A i \in DOMAIN page, k \in DOMAIN fetch_patterns :
              page[i].kind = "script" =>
                  \A url \in MatchUrls(findall(fetch_patterns[k], page[i].ref)) :
                      NotRejected(url) => Converted(url, "javascript")
    /\ "forms" \in ran =>
          \A i \in DOMAIN page :
              page[i].kind = "form" /\ NotRejected(page[i].ref)
                  => Converted(page[i].ref, "html_form")
    /\ "meta" \in ran =>
          \A i \in DOMAIN page :
              /\ page[i].kind = "meta" /\ NotRejected(page[i].ref)
                    => Converted(page[i].ref, "meta_tag")
              /\ page[i].kind = "data" /\ NotRejected(page[i].ref)
                    => Converted(page[i].ref, "data_attribute")

\* scan_common_paths has returned
PoolReturned == opts.scan_common_paths /\ pc # "common_paths"

\* C15: in scan_common_paths at most max_workers (5) probes are in flight at
\* any moment, one probe is submitted per path of the list, in list order, and
\* the call returns only after every submitted probe has completed, with a
\* response or with a failure
C15_BoundedPool ==
    /\ in_flight(pool) <= max_workers
    /\ pool.submitted <= pool.paths
    /\ \A i \in 1..pool.paths : (pool.status[i] # "new") <=> (i <= pool.submitted)
    /\ PoolReturned =>
          /\ pool.submitted = pool.paths
          /\ \A i \in 1..pool.paths :
                pool.status[i] = "collected" /\ pool.outcome[i].kind # "none"

\* the pool is full: max_workers probes are in flight and a submitted probe
\* waits for a worker
C15_Witness ==
    /\ pc = "common_paths"
    /\ in_flight(pool) = max_workers
    /\ \E i \in 1..pool.paths : pool.status[i] = "queued"

\* the url scan_common_paths probes for the i-th common path
PathUrl(i) == rstrip_slash(base_url) \o scanner_common_paths[i]

\* the probe of the i-th path returned a status below 400
PathAnswered(i) == pool.outcome[i].kind = "response" /\ pool.outcome[i].status < 400

\* the endpoints of a list that carry the url of the i-th path
OfPath(list, i) == { j \in DOMAIN list : list[j].url = PathUrl(i) }

\* C16: for every interleaving and completion order of the probes, the list
\* scan_common_paths returns holds exactly one endpoint for each path whose
\* probe returned a status below 400 and none for a path whose probe failed
\* or returned 400 or more; each endpoint is what its own probe determines,
\* so that only the order of the list varies; while the results are being
\* collected the same holds of the probes collected so far
C16_ResultPerPath ==
    /\ \A i \in 1..pool.paths :
          Cardinality(OfPath(pool.endpoints, i))
              = IF pool.status[i] = "collected" /\ PathAnswered(i) THEN 1 ELSE 0
    /\ PoolReturned =>
          /\ \A i \in 1..pool.paths :
                Cardinality(OfPath(scans.common, i)) = IF PathAnswered(i) THEN 1 ELSE 0
          /\ \A j \in DOMAIN scans.common :
                \E i \in 1..pool.paths :
                    scans.common[j] =
                        [url |-> PathUrl(i), method |-> "GET", parameters |-> <<>>,
                         source |-> "path_scan",
                         confidence |-> IF api_content_type(pool.outcome[i]) THEN 80 ELSE 50,
                         headers |-> <<>>]

\* scan_common_paths has returned two endpoints in another order than the
\* order of the paths, after a probe that raised and a probe that returned a
\* 404
C16_Witness ==
    /\ PoolReturned
    /\ \E i \in 1..pool.paths : pool.outcome[i].kind = "exception"
    /\ \E i \in 1..pool.paths :
          pool.outcome[i].kind = "response" /\ pool.outcome[i].status >= 400
    /\ \E a, b \in 1..pool.paths, j, k \in DOMAIN scans.common :
          /\ a < b
          /\ k < j
          /\ scans.common[j].url = PathUrl(a)
          /\ scans.common[k].url = PathUrl(b)

\* C17: one session carries the authentication state for the whole scan:
\* when the caller authenticated, the page fetch, the validation probes and
\* the common-path probes all go through the session that holds the
\* authentication cookies or headers
C17_SingleSession ==
    authenticated => \A r \in requests.via : r.session = "caller"

C19_SequentialThrottled ==
    /\ requests.head - Len(validated) = IF pc = "probing" THEN 1 ELSE 0
    /\ requests.sleep = IF pc = "sleep" THEN Len(validated) - 1 ELSE Len(validated)
    /\ pc = "probing" => vi = Len(validated)

\* the second probe is in flight after the first one failed and the delay
\* that followed it
C19_Witness ==
    /\ pc = "probing"
    /\ Len(validated) >= 1
    /\ lastProbe.kind = "exception"
    /\ requests.sleep = Len(validated)

\* the positions of eps that hold the first entity of their (url, method)
FirstSeen(eps) ==
    { i \in 1..Len(eps) : \A h \in 1..(i - 1) : key(eps[h]) # key(eps[i]) }

\* C29: a merge leaves its input as it was; its output holds, for each
\* (url, method) group and in the order of the groups' first occurrences, an
\* entity with the parameters, headers and source of the group's first
\* member; an input without duplicates comes back unchanged.
C29_FirstSeenKept ==
    [][(mpc = "input" /\ mpc' = "merged") =>
          /\ merge_in' = merge_in
          /\ Len(merge_out') = Cardinality(FirstSeen(merge_in))
          /\ \A i \in FirstSeen(merge_in) :
                \E j \in 1..Len(merge_out') :
                   /\ j = Cardinality({ h \in FirstSeen(merge_in) : h <= i })
                   /\ key(merge_out'[j]) = key(merge_in[i])
                   /\ merge_out'[j].parameters = merge_in[i].parameters
                   /\ merge_out'[j].headers = merge_in[i].headers
                   /\ merge_out'[j].source = merge_in[i].source
          /\ UniquePairs(merge_in) => merge_out' = merge_in]_vars

\* a merged input whose first and third entities share a key and differ in
\* source and parameters, with an entity of another key between them
C29_Witness ==
    /\ mpc = "merged"
    /\ Len(merge_in) = 3
    /\ key(merge_in[1]) = key(merge_in[3])
    /\ key(merge_in[1]) # key(merge_in[2])
    /\ merge_in[1].source # merge_in[3].source
    /\ merge_in[1].parameters # merge_in[3].parameters
    /\ Len(merge_out) = 2

\* the source tags of the two authenticated-only stages
AuthSources ==
    {"authenticated_content", "authenticated_data_attr", "authenticated_endpoint_test"}

\* C27: in a run without an authenticated authenticator discover_endpoints
\* sends no GET to the authenticated-path list, does not run the
\* authenticated-content strategy, and no list it builds or returns holds an
\* endpoint of the authenticated-content strategy or of the path prober.
C27_AuthStagesGated ==
    ~authenticated =>
        /\ requests.auth_get = 0
        /\ ai = 0
        /\ "authenticated_content" \notin ran
        /\ \A eps \in {endpoints, unique_endpoints, validated, returned} :
              \A i \in 1..Len(eps) : eps[i].source \notin AuthSources

\* an unauthenticated run that returned endpoints for a fetched page on which
\* the authenticated-content strategy would have found some
C27_Witness ==
    /\ ~authenticated
    /\ pc = "returned"
    /\ fetched = "ok"
    /\ returned # <<>>
    /\ discover_authenticated_content(page_text(page)) # <<>>

\* the confidences one probe can turn the confidence c into
OneProbeStep(c) ==
    { c, Min2(c + 20, 100), Min2(Min2(c + 20, 100) + 10, 100), Max2(c - 30, 10) }

\* C21: no HEAD probe is sent before the merge; from the merge on the merged
\* list holds each (url, method) of the extracted endpoints once, the probes
\* sent are one per endpoint the validator has reached, the validated list
\* holds the merged endpoints in order, each with a confidence one probe away
\* from its merged confidence, and at the return every merged endpoint has
\* been probed once.
C21_ScoredOnce ==
    /\ requests.head > 0 => pc \in {"validate", "probing", "sleep", "returned"}
    /\ pc \in {"validate", "probing", "sleep", "returned"} =>
          /\ UniquePairs(unique_endpoints)
          /\ Keys(unique_endpoints) = Keys(endpoints)
          /\ requests.head = vi + (IF pc = "probing" THEN 1 ELSE 0)
          /\ vi <= Len(unique_endpoints)
          /\ Len(validated) = vi
          /\ \A i \in 1..Len(validated) :
                /\ key(validated[i]) = key(unique_endpoints[i])
                /\ validated[i].confidence \in OneProbeStep(unique_endpoints[i].confidence)
    /\ pc = "returned" => requests.head = Len(unique_endpoints)

\* a returned run in which the merge removed a duplicate and left two
\* endpoints, both probed and one of them raised by its probe
C21_Witness ==
    /\ pc = "returned"
    /\ Len(unique_endpoints) < Len(endpoints)
    /\ Len(unique_endpoints) >= 2
    /\ requests.head = 2
    /\ \E i \in 1..Len(returned) : returned[i].confidence > unique_endpoints[i].confidence

\* the keyword test of looks_api_like: the lower-cased url holds a keyword
HasApiKeyword(url) ==
    \E kw \in {"api", "rest", "graphql", "endpoint", "service", "json", "xml", "data",
               "ajax", "fetch"} :
        contains(lower(url), kw)

EnumeratedSources ==
    {"html_link", "javascript", "html_form", "ajax_call", "meta_tag", "data_attribute",
     "comment", "authenticated_content", "path_scan", "robots_txt", "sitemap",
     "swagger_docs", "swagger_spec", "authenticated_endpoint_test"}

\* C24: every endpoint discover_endpoints has extracted, merged, validated or
\* returned carries a source tag of the enumerated set.
C24_EnumeratedSource ==
    \A eps \in {endpoints, unique_endpoints, validated, returned} :
        \A i \in 1..Len(eps) : eps[i].source \in EnumeratedSources

\* the part of a url the keyword test of the specification looks at: what
\* follows the authority of a url with "://", what follows the scheme of any
\* other url with a scheme, the whole of a relative reference
PathAndQuery(url) ==
    IF find(url, "://") > 0
    THEN LET rest == SubSeq(url, find(url, "://") + 3, Len(url))
             cut  == { i \in 1..Len(rest) : CharAt(rest, i) \in {"/", "?", "#"} }
         IN  IF cut = {} THEN "" ELSE SubSeq(rest, Least(cut), Len(rest))
    ELSE IF has_scheme(url) THEN SubSeq(url, find(url, ":") + 1, Len(url))
    ELSE url

\* C22: for a url that is not rejected (not empty, neither javascript: nor
\* mailto:), _is_potential_endpoint returns true exactly when the path or the
\* query of the url holds one of the keywords, whatever its case; a keyword in
\* the scheme or the host alone does not count.
C22_KeywordInPathOrQuery ==
    (call.fn = "_is_potential_endpoint" /\ call.returned /\ NotRejected(call.arg)) =>
        (call.result <=> HasApiKeyword(PathAndQuery(call.arg)))

\* the lines of a robots.txt body: the pieces between its line feeds
BodyLines(text) == split(text, "\n")

\* C25: for a robots.txt answered with status 200, scan_robots_txt returns,
\* in the order of the lines of the body, one endpoint (base url + path,
\* source robots_txt, confidence 0.6) for every line that is an Allow: or
\* Disallow: directive with an API-like path, and nothing for any other line.
C25_RobotsLineByLine ==
    (call.fn = "scan_robots_txt" /\ call.returned /\ call.arg.kind = "response"
        /\ call.arg.status = 200) =>
        call.result = robots_lines(base_url, BodyLines(call.arg.text))

\* what the claim expects of the document at swagger_paths[k]: its
\* swagger_docs endpoint and, for a body that decodes to a JSON document with
\* a paths map, one swagger_spec endpoint per declared path and method
RECURSIVE DeclaredEndpoints(_, _)
DeclaredEndpoints(responses, k) ==
    IF k > Len(responses) THEN <<>>
    ELSE (IF responses[k].kind = "response" /\ responses[k].status = 200
          THEN <<APIEndpoint(rstrip_slash(base_url) \o swagger_paths[k], "GET", <<>>,
                             "swagger_docs", 90)>>
               \o (IF responses[k].json.decodes /\ responses[k].json.has_paths
                   THEN swagger_path_keys(base_url, responses[k].json.basePath,
                                          responses[k].json.paths)
                   ELSE <<>>)
          ELSE <<>>)
         \o DeclaredEndpoints(responses, k + 1)

\* C26: discover_swagger_docs returns, for every conventional path answered
\* with status 200, a swagger_docs endpoint at confidence 0.9 and, when the
\* body at that path is a JSON document with a paths map, whichever of the
\* paths it is, a swagger_spec endpoint for every declared path and method,
\* the method in upper case.
C26_SwaggerSpecAnyPath ==
    (call.fn = "discover_swagger_docs" /\ call.returned) =>
        call.result = DeclaredEndpoints(call.arg, 1)

\* what the documents from position k on contribute when a document that
\* cannot be fetched, is not answered with 200 or does not parse is skipped
\* and every other document is read
RECURSIVE DocumentsYield(_, _, _)
DocumentsYield(fn, responses, k) ==
    IF k > Len(responses) THEN <<>>
    ELSE (IF responses[k].kind = "exception" \/ responses[k].status # 200 THEN <<>>
          ELSE IF fn = "scan_sitemap"
          THEN (IF responses[k].parses THEN sitemap_locs(responses[k].locs) ELSE <<>>)
          ELSE swagger_response(base_url, swagger_paths[k], responses[k]))
         \o DocumentsYield(fn, responses, k + 1)

\* C28: scan_sitemap and discover_swagger_docs return the endpoints of every
\* document they could read, in the order of the paths: a document that
\* raised, was not answered with 200 or did not parse takes nothing away
\* from the documents before it and does not stop the documents after it;
\* every Swagger path answered with 200 keeps its swagger_docs endpoint.
C28_FailureSkipsOneDocument ==
    (call.fn \in {"scan_sitemap", "discover_swagger_docs"} /\ call.returned) =>
        /\ call.result = DocumentsYield(call.fn, call.arg, 1)
        /\ \A k \in 1..Len(call.arg) :
              (call.arg[k].kind = "response" /\ call.arg[k].status = 200) =>
                 \/ call.fn = "scan_sitemap"
                 \/ \E i \in 1..Len(call.result) :
                       /\ call.result[i].source = "swagger_docs"
                       /\ call.result[i].url = rstrip_slash(base_url) \o swagger_paths[k]

\* a sitemap scan whose second document raised, between two documents that
\* were read: the result holds the endpoints of both
C28_Witness ==
    /\ call.fn = "scan_sitemap"
    /\ call.returned
    /\ call.arg[1].kind = "response" /\ call.arg[1].status = 200 /\ call.arg[1].parses
    /\ call.arg[2].kind = "exception"
    /\ call.arg[3] = call.arg[1]
    /\ sitemap_locs(call.arg[1].locs) # <<>>
    /\ call.result = sitemap_locs(call.arg[1].locs) \o sitemap_locs(call.arg[3].locs)

\* a step taken once the merged list is with the validator leaves the
\* candidate list, the merged list, the record of the strategies run and the
\* counts of page fetches and authenticated GETs as they are
NoReentry ==
    pc \in {"validate", "probing", "sleep", "returned"} =>
        /\ endpoints' = endpoints
        /\ unique_endpoints' = unique_endpoints
        /\ ran' = ran
        /\ requests'.fetch = requests.fetch
        /\ requests'.auth_get = requests.auth_get

\* C30: discover_endpoints ends, by returning or by raising; when it has
\* ended it has fetched the page once, has sent at most one GET per
\* authenticated path, and none without authentication, and has sent one HEAD
\* probe per merged endpoint; once the merged list is handed to the validator
\* no strategy runs again and neither the candidate list nor the merged list
\* changes.
C30_Terminates ==
    /\ <>(pc \in {"returned", "raised"})
    /\ [](pc \in {"returned", "raised"} =>
            /\ requests.fetch = 1
            /\ requests.auth_get <= (IF authenticated THEN NumAuthPaths ELSE 0)
            /\ requests.auth_get = ai
            /\ requests.head = Len(unique_endpoints))
    /\ [][NoReentry]_vars

\* an authenticated run that has returned after a GET of the authenticated
\* path and the HEAD probes of two merged endpoints
C30_Witness ==
    /\ pc = "returned"
    /\ fetched = "ok"
    /\ authenticated
    /\ requests.auth_get = NumAuthPaths
    /\ Len(unique_endpoints) >= 2
    /\ requests.head = Len(unique_endpoints)

====
